---- MODULE Spec2Model ----
(***************************************************************************)
(* Model of vectornator: the reconciliation engine (SyncEngine.sync), the  *)
(* state store (MetadataManager, GitMetadataManager,                       *)
(* GitBranchMetadataManager), the content scanner (FileScanner) and the    *)
(* remote adapters (mock, example, openai).                                *)
(*                                                                         *)
(* Abstractions: file bytes are small integers; a digest is the pair       *)
(* <<algorithm, bytes>>; timestamps (uploadedAt, lastSync) are left out;   *)
(* a JS object keyed by path is a total function over Paths with NoEntry   *)
(* for an absent key, enumerated in the order of PathSeq.                  *)
(***************************************************************************)
EXTENDS Integers, Sequences, FiniteSets, TLC

\* ------------------------------------------------------------------ bounds
Paths == {"a.md", "b.md"}
PathSeq == <<"a.md", "b.md">>
MaxContent == 2
MaxId == 2
MaxRuns == 3

Contents == 1..MaxContent
Ids == 1..MaxId

\* ------------------------------------------------------------- data model
sha256(c) == <<"sha256", c>>
md5(c) == <<"md5", c>>

NoMetadata ==
    [path |-> "", hash |-> <<"", 0>>, size |-> 0, lastModified |-> 0,
     mimeType |-> "", encoding |-> "", provider |-> "", storeId |-> ""]

NoEntry == [fileId |-> 0, metadata |-> NoMetadata, version |-> 0]

HasEntry(entry) == entry # NoEntry

EmptyFiles == [p \in Paths |-> NoEntry]

\* StoredMetadata; loaded = FALSE is the null of `metadata: StoredMetadata | null`,
\* valid = FALSE is a parsed value that has no `files` object (such as {})
NullMetadata ==
    [loaded |-> FALSE, valid |-> TRUE, storeId |-> "", files |-> EmptyFiles]
FreshMetadata ==
    [loaded |-> TRUE, valid |-> TRUE, storeId |-> "", files |-> EmptyFiles]

\* a persisted document: missing, corrupt (not parseable), json (parseable,
\* without a `files` object), truncated (opened for writing, not yet
\* written) or a document
MissingDoc == [state |-> "missing", storeId |-> "", files |-> EmptyFiles]
CorruptDoc == [state |-> "corrupt", storeId |-> "", files |-> EmptyFiles]
JsonDoc == [state |-> "json", storeId |-> "", files |-> EmptyFiles]
TruncatedDoc == [state |-> "truncated", storeId |-> "", files |-> EmptyFiles]
Parseable(d) == d.state \in {"doc", "json"}
DocOf(m) ==
    [state |-> IF m.valid THEN "doc" ELSE "json", storeId |-> m.storeId,
     files |-> m.files]
ParseDoc(d) ==
    [loaded |-> TRUE, valid |-> d.state = "doc", storeId |-> d.storeId,
     files |-> d.files]

\* --------------------------------------------------------------- scanner
DefaultPatterns == <<"**/*.md", "**/*.mdx", "**/*.txt">>
DefaultExcludes == <<"node_modules/**", ".git/**", "dist/**", "*.log">>

\* the paths of Paths a glob pattern matches
GlobMatches(pattern) ==
    CASE pattern = "**/*.md" -> Paths
      [] pattern = "a.md" -> {"a.md"}
      [] pattern = "b.md" -> {"b.md"}
      [] OTHER -> {}

Range(s) == {s[i] : i \in 1..Len(s)}

Ignored(path, exclude) == \E e \in Range(exclude) : path \in GlobMatches(e)

\* dir[p] for a file that is listed but cannot be read (permission error,
\* removed between the listing and the read)
Unreadable == -1

\* what a listing of options.directory sees: nothing when the directory
\* cannot be listed (glob reports no error for a cwd it cannot read)
Listing(dir, options) ==
    IF options.directory = "unlistable" THEN [p \in Paths |-> 0] ELSE dir

\* glob(pattern, {cwd, ignore, nodir}): the existing files that match, in
\* directory order
glob(dir, pattern, exclude) ==
    SelectSeq(PathSeq, LAMBDA p : /\ dir[p] # 0
                                  /\ p \in GlobMatches(pattern)
                                  /\ ~Ignored(p, exclude))

\* FileScanner.getMimeType: every path of the model ends in .md
getMimeType(p) == IF p \in Paths THEN "text/markdown" ELSE "text/plain"

\* the FileMetadata processFile builds for bytes c at path p
scanMetadata(p, c) ==
    [path |-> p, hash |-> sha256(c), size |-> c, lastModified |-> c,
     mimeType |-> getMimeType(p), encoding |-> "utf-8", provider |-> "",
     storeId |-> ""]

\* processFile returns null when readFile or stat throws
NullFile == [path |-> "", content |-> 0, metadata |-> NoMetadata]

\* variant of processFile without the try/catch around the read
processFileUnchecked(dir, p) ==
    [path |-> p, content |-> dir[p], metadata |-> scanMetadata(p, dir[p])]
\* FileScanner.processFile
processFile(dir, p) ==
    IF dir[p] = Unreadable THEN NullFile
    ELSE [path |-> p, content |-> dir[p], metadata |-> scanMetadata(p, dir[p])]

\* `const file = await this.processFile(...); if (file) files.push(file)`
RECURSIVE ProcessMatches(_, _, _)
ProcessMatches(dir, matches, i) ==
    IF i > Len(matches) THEN <<>>
    ELSE LET file == processFile(dir, matches[i])
         IN (IF file # NullFile THEN <<file>> ELSE <<>>)
               \o ProcessMatches(dir, matches, i + 1)

RECURSIVE ScanPatterns(_, _, _, _)
ScanPatterns(dir, patterns, exclude, k) ==
    IF k > Len(patterns) THEN <<>>
    ELSE ProcessMatches(dir, glob(dir, patterns[k], exclude), 1)
           \o ScanPatterns(dir, patterns, exclude, k + 1)

\* FileScanner.scan: one glob per pattern, results concatenated
scan(dir, options) ==
    ScanPatterns(Listing(dir, options), options.patterns,
                 DefaultExcludes \o options.exclude, 1)

\* ------------------------------------------------- MetadataManager.compare
MapHas(m, id) == \E i \in 1..Len(m) : m[i].id = id

MapSet(m, f) ==
    IF MapHas(m, f.id)
    THEN [i \in 1..Len(m) |-> IF m[i].id = f.id THEN f ELSE m[i]]
    ELSE Append(m, f)

\* variant of Map.delete that leaves the map as it is
MapDeleteNoop(m, id) == m
\* Map.delete
MapDelete(m, id) == SelectSeq(m, LAMBDA x : x.id # id)

RECURSIVE BuildRemoteMap(_, _)
BuildRemoteMap(remoteFiles, i) ==
    IF i = 0 THEN <<>>
    ELSE MapSet(BuildRemoteMap(remoteFiles, i - 1), remoteFiles[i])

LocalItem(f) == [path |-> f.path, metadata |-> f.metadata]

\* variant of the comparison that also looks at the modification time
HashOrTimeChanged(entry, localFile) ==
    \/ entry.metadata.hash # localFile.metadata.hash
    \/ entry.metadata.lastModified # localFile.metadata.lastModified
\* `entry.metadata.hash !== localFile.metadata.hash`
HashChanged(entry, localFile) ==
    entry.metadata.hash # localFile.metadata.hash

RECURSIVE CompareLoop(_, _, _, _)
CompareLoop(localFiles, files, i, acc) ==
    IF i > Len(localFiles) THEN acc
    ELSE
      LET localFile == localFiles[i]
          entry == files[localFile.path]
      IN IF ~HasEntry(entry)
         THEN CompareLoop(localFiles, files, i + 1,
                          [acc EXCEPT !.toAdd = Append(@, localFile)])
         ELSE IF ~MapHas(acc.remoteFileMap, entry.fileId)
         THEN CompareLoop(localFiles, files, i + 1,
                          [acc EXCEPT !.toAdd = Append(@, localFile)])
         ELSE IF HashChanged(entry, localFile)
         THEN CompareLoop(localFiles, files, i + 1,
                          [acc EXCEPT
                             !.toUpdate = Append(@, [path |-> localFile.path,
                                                     metadata |-> localFile.metadata,
                                                     fileId |-> entry.fileId]),
                             !.remoteFileMap = MapDelete(@, entry.fileId)])
         ELSE CompareLoop(localFiles, files, i + 1,
                          [acc EXCEPT
                             !.unchanged = Append(@, [path |-> localFile.path,
                                                      fileId |-> entry.fileId]),
                             !.remoteFileMap = MapDelete(@, entry.fileId)])

\* variant that prefers the path of the remote file's own metadata
DeletePathRemoteFirst(files, remoteFile) ==
    LET hits == SelectSeq(PathSeq, LAMBDA p : files[p].fileId = remoteFile.id)
    IN IF remoteFile.metadata.path # "" THEN remoteFile.metadata.path
       ELSE IF Len(hits) > 0 THEN hits[1]
       ELSE "unknown"
\* the path reported for a remote file left in the map: the first mapping
\* entry with that fileId, else the remote file's own path, else 'unknown'
DeletePath(files, remoteFile) ==
    LET hits == SelectSeq(PathSeq, LAMBDA p : files[p].fileId = remoteFile.id)
    IN IF Len(hits) > 0 THEN hits[1]
       ELSE IF remoteFile.metadata.path # "" THEN remoteFile.metadata.path
       ELSE "unknown"

ToDeleteOf(files, remoteFileMap) ==
    [i \in 1..Len(remoteFileMap) |->
        [fileId |-> remoteFileMap[i].id,
         path |-> DeletePath(files, remoteFileMap[i])]]

compareFiles(localFiles, remoteFiles, files) ==
    LET acc == CompareLoop(localFiles, files, 1,
                   [toAdd |-> <<>>, toUpdate |-> <<>>, unchanged |-> <<>>,
                    remoteFileMap |-> BuildRemoteMap(remoteFiles, Len(remoteFiles))])
    IN [toAdd |-> acc.toAdd, toUpdate |-> acc.toUpdate,
        toDelete |-> ToDeleteOf(files, acc.remoteFileMap),
        unchanged |-> acc.unchanged]

EmptyPlan == [toAdd |-> <<>>, toUpdate |-> <<>>, toDelete |-> <<>>, unchanged |-> <<>>]

\* -------------------------------------------------------------- providers
Providers == {"mock", "example", "openai"}

\* providers derived from BaseVectorStoreProvider guard their calls with
\* ensureInitialized; the mock of the integration tests does not
BaseDerived(kind) == kind \in {"example", "openai"}

EmptyRemote == [i \in Ids |-> NoMetadata]

InStore(store, id) == id \in Ids /\ store[id] # NoMetadata

IdSeq == [i \in 1..MaxId |-> i]

\* listFiles: every stored file, in insertion (= id) order
listFiles(store) ==
    LET ids == SelectSeq(IdSeq, LAMBDA i : InStore(store, i))
    IN [k \in 1..Len(ids) |-> [id |-> ids[k], metadata |-> store[ids[k]]]]

\* BaseVectorStoreProvider.enrichMetadata and its overrides
enrichMetadata(kind, content, baseMetadata) ==
    CASE kind = "openai" ->
           [baseMetadata EXCEPT !.provider = "openai", !.hash = md5(content),
                                !.encoding = "utf-8", !.storeId = "store"]
      [] kind = "example" -> [baseMetadata EXCEPT !.provider = "example"]
      [] OTHER -> [baseMetadata EXCEPT !.provider = "mock"]

\* uploadFile stores the file under a fresh id
uploadFile(store, id, fileMetadata) == [store EXCEPT ![id] = fileMetadata]

\* can updateFile(fileId) succeed against this store
CanUpdate(kind, store, fileId) ==
    CASE kind = "mock" -> TRUE
      [] OTHER -> InStore(store, fileId)

\* does updateFile consume a fresh id (delete-then-upload)
UpdateUploads(kind) == kind = "openai"

\* updateFile: in place for mock and example, delete then upload for openai
updateFile(kind, store, fileId, freshId, fileMetadata) ==
    IF UpdateUploads(kind)
    THEN [store EXCEPT ![fileId] = NoMetadata, ![freshId] = fileMetadata]
    ELSE [store EXCEPT ![fileId] = fileMetadata]

CanDelete(kind, store, fileId) ==
    CASE kind = "mock" -> TRUE
      [] OTHER -> InStore(store, fileId)

deleteFile(store, fileId) == [store EXCEPT ![fileId] = NoMetadata]

\* cleanup(): the example provider also clears its in-memory store
cleanupStore(kind, store) == IF kind = "example" THEN EmptyRemote ELSE store

\* variant of cleanup() that keeps the flag
cleanupInitializedKept(kind, init) == init
\* BaseVectorStoreProvider.cleanup: `this.initialized = false`
cleanupInitialized(kind, init) == IF BaseDerived(kind) THEN FALSE ELSE init

\* BaseVectorStoreProvider.initialize: the flag is set after validateConfig
\* and connect returned; when either throws the assignment is not reached
initialize(init, configOk, connectOk) ==
    IF configOk /\ connectOk THEN TRUE ELSE init

\* ensureInitialized, the first statement of the seven guarded methods
ensureInitialized(init) == IF init THEN "ok" ELSE "not initialized"

\* ------------------------------------------------------------ state store
Managers == {"file", "notes", "branch"}

\* SyncEngine constructor: `if (useGitNotes)` on whatever value was passed
StorageArgs == {"false", "file"}
Truthy(v) == v # "false"
ManagerFor(useGitNotes) == IF Truthy(useGitNotes) THEN "notes" ELSE "file"

\* MetadataManager.load
fileLoad(meta, fdoc) ==
    IF meta.loaded THEN meta
    ELSE IF Parseable(fdoc) THEN ParseDoc(fdoc)
    ELSE FreshMetadata

\* the working tree of the repository: what HEAD is ("branch", "detached",
\* or "metadata" when the metadata branch is checked out), the tracked files
\* ("clean", "dirty" with uncommitted changes, "removed"), and whether
\* `git commit` can succeed (a committer identity is configured)
CleanTree == [head |-> "branch", files |-> "clean", identity |-> TRUE]

\* ensureMetadataBranch creates the branch: it is missing and HEAD resolves
CreatesBranch(ref, repo, tree) ==
    repo /\ ref.state = "missing" /\ tree.head # "metadata"

\* ensureMetadataBranch throws: git fails, or the commit on the new branch
\* fails, or HEAD is the unborn metadata branch left by an earlier attempt
EnsureThrows(ref, repo, tree) ==
    \/ ~repo
    \/ ref.state = "missing" /\ (tree.head = "metadata" \/ ~tree.identity)

\* GitBranchMetadataManager.ensureMetadataBranch: the ref after the call
ensureMetadataBranch(ref, repo, tree) ==
    IF CreatesBranch(ref, repo, tree) /\ tree.identity
    THEN DocOf(FreshMetadata) ELSE ref

\* GitBranchMetadataManager.ensureMetadataBranch: the working tree after the
\* call (checkout --orphan, git rm -rf ., commit, checkout of the name that
\* rev-parse --abbrev-ref HEAD printed, which is HEAD when detached)
treeAfterEnsure(ref, repo, tree) ==
    IF ~CreatesBranch(ref, repo, tree) THEN tree
    ELSE IF ~tree.identity
    THEN [tree EXCEPT !.head = "metadata", !.files = "removed"]
    ELSE IF tree.head = "detached"
    THEN [tree EXCEPT !.head = "metadata", !.files = "removed"]
    ELSE [tree EXCEPT !.files = "clean"]

\* the history ref after load()
refAfterLoad(m, ref, repo, tree) ==
    IF m = "branch" THEN ensureMetadataBranch(ref, repo, tree) ELSE ref

\* the working tree after load() or save()
treeAfterCall(m, ref, repo, tree) ==
    IF m = "branch" THEN treeAfterEnsure(ref, repo, tree) ELSE tree

\* load() of the three managers: the in-memory mapping after the call
load(m, meta, fdoc, ref, repo, tree) ==
    CASE m = "file" -> fileLoad(meta, fdoc)
      [] m = "notes" ->
           IF repo /\ Parseable(ref) THEN ParseDoc(ref)
           ELSE fileLoad(meta, fdoc)
      [] OTHER ->
           IF ~EnsureThrows(ref, repo, tree)
                 /\ Parseable(ensureMetadataBranch(ref, repo, tree))
           THEN ParseDoc(ensureMetadataBranch(ref, repo, tree))
           ELSE fileLoad(meta, fdoc)

\* `metadata.files[...]` on a value without `files` is a TypeError
storeThrows(m, meta, fdoc, ref, repo, tree) ==
    ~load(m, meta, fdoc, ref, repo, tree).valid

getFileEntry(m, meta, fdoc, ref, repo, tree, p) ==
    load(m, meta, fdoc, ref, repo, tree).files[p]

setFileEntry(m, meta, fdoc, ref, repo, tree, p, entry) ==
    IF storeThrows(m, meta, fdoc, ref, repo, tree)
    THEN load(m, meta, fdoc, ref, repo, tree)
    ELSE [load(m, meta, fdoc, ref, repo, tree) EXCEPT !.files[p] = entry]

\* delete of a key that is absent ('unknown', or a path without an entry)
\* is a no-op
removeFileEntry(m, meta, fdoc, ref, repo, tree, p) ==
    IF p \in Paths /\ ~storeThrows(m, meta, fdoc, ref, repo, tree)
    THEN [load(m, meta, fdoc, ref, repo, tree) EXCEPT !.files[p] = NoEntry]
    ELSE load(m, meta, fdoc, ref, repo, tree)

\* MetadataManager.cleanup(remoteFiles): the entries whose fileId is not
\* among the listed ids are deleted from the loaded mapping
cleanup(m, meta, fdoc, ref, repo, tree, remoteFileIds) ==
    LET loaded == load(m, meta, fdoc, ref, repo, tree)
    IN IF storeThrows(m, meta, fdoc, ref, repo, tree) THEN loaded
       ELSE [loaded EXCEPT !.files =
                [p \in Paths |->
                    IF loaded.files[p].fileId \in remoteFileIds
                    THEN loaded.files[p] ELSE NoEntry]]

\* save(): the file document and the history ref after a successful call
fileAfterSave(meta) == DocOf(meta)

\* the git commands of save() can write the note or the commit
historyWritable(m, ref, repo, tree) ==
    CASE m = "notes" -> repo
      [] m = "branch" -> ~EnsureThrows(ref, repo, tree)
      [] OTHER -> FALSE

refAfterSave(m, meta, ref, repo, tree) ==
    IF historyWritable(m, ref, repo, tree) THEN DocOf(meta) ELSE ref

\* variant of save() that writes the file document only after a history write
saveWritesFileAfterHistory(m, historyOk) == m = "file" \/ historyOk
\* save() ends with super.save() in the try path and in the catch path
saveWritesFile(m, historyOk) == TRUE

\* ------------------------------------------------------------------ state
VARIABLES
    dir,          \* the local directory: path -> bytes (0: no such file)
    provider,     \* which remote adapter the engine was given
    initialized,  \* BaseVectorStoreProvider.initialized
    remote,       \* the remote store: id -> metadata (NoMetadata: absent)
    nextId,       \* the next identifier the remote store assigns
    manager,      \* which state store: "file", "notes" or "branch"
    metadata,     \* MetadataManager.metadata (the in-memory mapping)
    fileDoc,      \* the persisted file document
    gitRef,       \* the persisted note / metadata branch
    inRepo,       \* git commands succeed in the working directory
    worktree,     \* the checked-out branch and the working-tree files
    options,      \* SyncOptions of the engine: patterns, exclude, dryRun
    pc,           \* position of sync()
    scannedFiles, \* sync(): result of the scan
    remoteFiles,  \* sync(): result of listFiles
    comparison,   \* sync(): result of compareFiles
    idx,          \* sync(): position in the current for loop
    result,       \* sync(): the SyncResult being built
    calls,        \* per run: number of calls of each collaborator method
    runs,         \* number of sync() calls started
    prev,         \* observation: the previous run / what was written so far
    last          \* observation: the last call of a collaborator and its return

vars == <<dir, provider, initialized, remote, nextId, manager, metadata,
          fileDoc, gitRef, inRepo, worktree, options, pc, scannedFiles,
          remoteFiles, comparison, idx, result, calls, runs, prev, last>>

providerVars == <<provider, initialized, remote, nextId>>
storeVars == <<manager, metadata, fileDoc, gitRef, inRepo, worktree>>
runVars == <<scannedFiles, remoteFiles, comparison, idx, result>>

EmptyResult ==
    [added |-> <<>>, updated |-> <<>>, deleted |-> <<>>, unchanged |-> <<>>,
     failed |-> <<>>]

\* nothing was called yet
NoCall == [op |-> "none", path |-> "", ret |-> NoEntry, threw |-> FALSE]

NoCalls ==
    [uploadFile |-> 0, updateFile |-> 0, deleteFile |-> 0, setFileEntry |-> 0,
     removeFileEntry |-> 0, save |-> 0, push |-> 0, cleanup |-> 0]

PatternChoices == {DefaultPatterns, <<"**/*.md", "a.md">>}

\* the calls of the current manager on the current state
Load == load(manager, metadata, fileDoc, gitRef, inRepo, worktree)
RefAfterLoad == refAfterLoad(manager, gitRef, inRepo, worktree)
TreeAfterCall == treeAfterCall(manager, gitRef, inRepo, worktree)
StoreThrows == storeThrows(manager, metadata, fileDoc, gitRef, inRepo, worktree)

\* `comparison.unchanged.map(f => f.path)`
Paths_(seq) == [i \in 1..Len(seq) |-> seq[i].path]

\* the local file set of the run
LocalPaths == {p \in Paths : dir[p] # 0}

\* scannedFiles.find(f => f.path === path)
FindScanned(files, path) ==
    LET hits == SelectSeq(files, LAMBDA f : f.path = path) IN hits[1]

\* variant in which the deletions loop follows the additions loop
NextLoopDeletesSecond(step) == "delete"
\* lines 93-200: the additions loop, then the updates loop, then the
\* deletions loop
NextLoop(step) == IF step = "add" THEN "update" ELSE "delete"

\* variant of the line-86 test that ignores the flag
IsDryRunIgnored(opts) == FALSE
\* line 86: the run stops after the plan when options.dryRun is set
IsDryRun(opts) == opts.dryRun

\* variant of the step order that saves right after the additions
NextStepSaveEarly(step, m) ==
    CASE step = "add" -> "save"
      [] step = "save" -> "update"
      [] step = "update" -> "delete"
      [] step = "delete" -> IF m = "notes" THEN "push" ELSE "cleanup"
      [] step = "push" -> "cleanup"
      [] OTHER -> "done"
\* the order of the steps of sync() after the plan is computed
NextStep(step, m) ==
    CASE step \in {"add", "update"} -> NextLoop(step)
      [] step = "delete" -> "save"
      [] step = "save" -> IF m = "notes" THEN "push" ELSE "cleanup"
      [] step = "push" -> "cleanup"
      [] OTHER -> "done"

\* ------------------------------------------------------------------- Init
\* the set-ups explored: every provider with every state store (inside and
\* outside a git repository) under the default patterns, and one set-up
\* whose include patterns overlap
StoreIdChoices == {"", "store"}

Setups ==
    {s \in [provider : Providers, useGitNotes : StorageArgs,
            inRepo : BOOLEAN, patterns : PatternChoices,
            storeId : StoreIdChoices] :
        /\ ~Truthy(s.useGitNotes) => s.inRepo
        /\ s.patterns # DefaultPatterns =>
              s.provider = "mock" /\ ~Truthy(s.useGitNotes)
        /\ s.storeId # "" =>
              /\ s.provider = "mock" /\ ~Truthy(s.useGitNotes)
              /\ s.patterns = DefaultPatterns}

Init ==
    /\ dir = [p \in Paths |-> 0]
    /\ initialized = TRUE
    /\ remote = EmptyRemote
    /\ nextId = 1
    /\ \E s \in Setups :
          /\ provider = s.provider
          /\ manager = ManagerFor(s.useGitNotes)
          /\ inRepo = s.inRepo
          /\ worktree = CleanTree
          /\ fileDoc = IF s.storeId = "" THEN MissingDoc
                       ELSE DocOf([FreshMetadata EXCEPT !.storeId = s.storeId])
          /\ options = [directory |-> "root", patterns |-> s.patterns,
                        exclude |-> <<>>, dryRun |-> FALSE,
                        storage |-> s.useGitNotes]
    /\ metadata = NullMetadata
    /\ gitRef = MissingDoc
    /\ pc = "idle"
    /\ scannedFiles = <<>>
    /\ remoteFiles = <<>>
    /\ comparison = EmptyPlan
    /\ idx = 0
    /\ result = EmptyResult
    /\ calls = NoCalls
    /\ runs = 0
    /\ prev = [clean |-> FALSE]
    /\ last = NoCall

\* ------------------------------------------------------------ environment
\* a file is created or overwritten between runs
WriteFile(p, c) ==
    /\ pc = "idle"
    /\ dir[p] # c
    /\ dir' = [dir EXCEPT ![p] = c]
    /\ prev' = [clean |-> FALSE]
    /\ UNCHANGED <<providerVars, storeVars, options, pc, runVars, calls, runs,
                   last>>

\* a file is removed between runs
Unlink(p) ==
    /\ pc = "idle"
    /\ dir[p] # 0
    /\ dir' = [dir EXCEPT ![p] = 0]
    /\ prev' = [clean |-> FALSE]
    /\ UNCHANGED <<providerVars, storeVars, options, pc, runVars, calls, runs,
                   last>>

\* a remote object vanishes (removed by someone else) between runs
RemoteVanish(id) ==
    /\ pc = "idle"
    /\ InStore(remote, id)
    /\ remote' = [remote EXCEPT ![id] = NoMetadata]
    /\ prev' = [clean |-> FALSE]
    /\ UNCHANGED <<dir, provider, initialized, nextId, storeVars, options, pc,
                   runVars, calls, runs, last>>

\* a new process: a new engine, a new manager and a newly initialized
\* provider (providerRegistry.get); the example provider's store and id
\* counter live in the process
Restart ==
    /\ pc = "idle"
    /\ runs > 0
    /\ metadata' = NullMetadata
    /\ initialized' = TRUE
    /\ remote' = IF provider = "example" THEN EmptyRemote ELSE remote
    /\ nextId' = IF provider = "example" THEN 1 ELSE nextId
    /\ prev' = IF remote' = remote THEN prev ELSE [clean |-> FALSE]
    /\ UNCHANGED <<dir, provider, manager, fileDoc, gitRef, inRepo, worktree, options,
                   pc, runVars, calls, runs, last>>

\* ------------------------------------------------------ SyncEngine.sync
Bump(c, name) == [c EXCEPT ![name] = @ + 1]

\* variant of the catch blocks that records no path
FailureUnnamed(path) == [path |-> "unknown", error |-> "Upload failed"]
\* the catch blocks of the three loops: `result.failed.push({path, error})`
Failure(path) == [path |-> path, error |-> "Upload failed"]

\* lines 26-44: a run starts (the result is initialised, notes are fetched)
StartSync(dryRun) ==
    /\ pc = "idle"
    /\ runs < MaxRuns
    /\ options' = [options EXCEPT !.dryRun = dryRun]
    /\ result' = EmptyResult
    /\ runs' = runs + 1
    /\ pc' = "verify"
    /\ UNCHANGED <<dir, providerVars, storeVars, scannedFiles, remoteFiles,
                   comparison, idx, calls, prev, last>>

\* lines 46-55: verifyStore, and getStoreId when the store is not there
VerifyStore(storeExists) ==
    /\ pc = "verify"
    /\ IF BaseDerived(provider) /\ ~initialized
       THEN /\ pc' = "failed"
            /\ last' = [NoCall EXCEPT !.op = "verifyStore", !.ret = FALSE,
                                      !.threw = TRUE]
            /\ UNCHANGED <<metadata, gitRef>>
       ELSE /\ last' = [NoCall EXCEPT !.op = "verifyStore", !.ret = storeExists]
            /\ IF storeExists
               THEN pc' = "scan" /\ UNCHANGED <<metadata, gitRef>>
               ELSE /\ metadata' = Load
                    /\ gitRef' = RefAfterLoad
                    /\ pc' = IF Load.storeId = "" THEN "failed" ELSE "scan"
    /\ UNCHANGED <<dir, providerVars, manager, fileDoc, inRepo, worktree, options,
                   runVars, calls, runs, prev>>

\* lines 57-64
Scan ==
    /\ pc = "scan"
    /\ scannedFiles' = scan(dir, options)
    /\ pc' = "list"
    /\ UNCHANGED <<dir, providerVars, storeVars, options, remoteFiles,
                   comparison, idx, result, calls, runs, prev, last>>

\* lines 66-70
ListFiles ==
    /\ pc = "list"
    /\ remoteFiles' = listFiles(remote)
    /\ pc' = "compare"
    /\ UNCHANGED <<dir, providerVars, storeVars, options, scannedFiles,
                   comparison, idx, result, calls, runs, prev, last>>

\* lines 72-90: the plan, and the return of a dry run
Compare ==
    /\ pc = "compare"
    /\ metadata' = Load
    /\ gitRef' = RefAfterLoad
    /\ comparison' = compareFiles([i \in 1..Len(scannedFiles) |->
                                      LocalItem(scannedFiles[i])],
                                  remoteFiles, Load.files)
    /\ idx' = 1
    /\ pc' = IF IsDryRun(options) THEN "done" ELSE "add"
    /\ UNCHANGED <<dir, providerVars, manager, fileDoc, inRepo, worktree, options,
                   scannedFiles, remoteFiles, result, calls, runs, prev, last>>

\* lines 116-121: the entry written after an upload
AddedEntry(fileId, enrichedMetadata) ==
    [fileId |-> fileId, metadata |-> enrichedMetadata, version |-> 1]

\* lines 95-132: one iteration of the additions loop
AddOne(ok) ==
    /\ pc = "add"
    /\ idx <= Len(comparison.toAdd)
    /\ LET file == comparison.toAdd[idx]
           scannedFile == FindScanned(scannedFiles, file.path)
           enrichedMetadata == enrichMetadata(provider, scannedFile.content,
                                              file.metadata)
       IN IF ok
          THEN /\ nextId <= MaxId
               /\ remote' = uploadFile(remote, nextId, enrichedMetadata)
               /\ nextId' = nextId + 1
               /\ metadata' = setFileEntry(manager, metadata, fileDoc, gitRef,
                                  inRepo, worktree, file.path,
                                  AddedEntry(nextId, enrichedMetadata))
               /\ gitRef' = RefAfterLoad
               /\ result' = [result EXCEPT !.added = Append(@, file.path)]
               /\ calls' = Bump(Bump(calls, "uploadFile"), "setFileEntry")
          ELSE /\ result' = [result EXCEPT !.failed = Append(@, Failure(file.path))]
               /\ calls' = Bump(calls, "uploadFile")
               /\ UNCHANGED <<remote, nextId, metadata, gitRef>>
    /\ idx' = idx + 1
    /\ UNCHANGED <<dir, provider, initialized, manager, fileDoc, inRepo, worktree,
                   options, pc, scannedFiles, remoteFiles, comparison, runs,
                   prev, last>>

\* lines 138-176: one iteration of the updates loop; "partial" is the
\* delete-then-upload update failing after its delete
UpdateOne(outcome) ==
    /\ pc = "update"
    /\ idx <= Len(comparison.toUpdate)
    /\ LET file == comparison.toUpdate[idx]
           scannedFile == FindScanned(scannedFiles, file.path)
           enrichedMetadata == enrichMetadata(provider, scannedFile.content,
                                              file.metadata)
           existingEntry == getFileEntry(manager, metadata, fileDoc, gitRef,
                                         inRepo, worktree, file.path)
       IN CASE outcome = "ok" ->
               /\ CanUpdate(provider, remote, file.fileId)
               /\ UpdateUploads(provider) => nextId <= MaxId
               /\ remote' = updateFile(provider, remote, file.fileId, nextId,
                                       enrichedMetadata)
               /\ nextId' = IF UpdateUploads(provider) THEN nextId + 1 ELSE nextId
               /\ metadata' = setFileEntry(manager, metadata, fileDoc, gitRef,
                                  inRepo, worktree, file.path,
                                  [fileId |-> file.fileId,
                                   metadata |-> enrichedMetadata,
                                   version |-> existingEntry.version + 1])
               /\ gitRef' = RefAfterLoad
               /\ result' = [result EXCEPT !.updated = Append(@, file.path)]
               /\ calls' = Bump(Bump(calls, "updateFile"), "setFileEntry")
            [] outcome = "partial" ->
               /\ UpdateUploads(provider)
               /\ InStore(remote, file.fileId)
               /\ remote' = deleteFile(remote, file.fileId)
               /\ result' = [result EXCEPT !.failed = Append(@, Failure(file.path))]
               /\ calls' = Bump(calls, "updateFile")
               /\ UNCHANGED <<nextId, metadata, gitRef>>
            [] OTHER ->
               /\ result' = [result EXCEPT !.failed = Append(@, Failure(file.path))]
               /\ calls' = Bump(calls, "updateFile")
               /\ UNCHANGED <<remote, nextId, metadata, gitRef>>
    /\ idx' = idx + 1
    /\ UNCHANGED <<dir, provider, initialized, manager, fileDoc, inRepo, worktree,
                   options, pc, scannedFiles, remoteFiles, comparison, runs,
                   prev, last>>

\* lines 182-199: one iteration of the deletions loop
DeleteOne(ok) ==
    /\ pc = "delete"
    /\ idx <= Len(comparison.toDelete)
    /\ LET file == comparison.toDelete[idx]
       IN IF ok
          THEN /\ CanDelete(provider, remote, file.fileId)
               /\ remote' = deleteFile(remote, file.fileId)
               /\ metadata' = removeFileEntry(manager, metadata, fileDoc,
                                              gitRef, inRepo, worktree, file.path)
               /\ gitRef' = RefAfterLoad
               /\ result' = [result EXCEPT !.deleted = Append(@, file.path)]
               /\ calls' = Bump(Bump(calls, "deleteFile"), "removeFileEntry")
          ELSE /\ result' = [result EXCEPT !.failed = Append(@, Failure(file.path))]
               /\ calls' = Bump(calls, "deleteFile")
               /\ UNCHANGED <<remote, metadata, gitRef>>
    /\ idx' = idx + 1
    /\ UNCHANGED <<dir, provider, initialized, nextId, manager, fileDoc,
                   inRepo, worktree, options, pc, scannedFiles, remoteFiles, comparison,
                   runs, prev, last>>

\* a for loop of lines 93-200 is exhausted (line 203 after the last one)
EndLoop ==
    /\ pc \in {"add", "update", "delete"}
    /\ idx > Len(CASE pc = "add" -> comparison.toAdd
                   [] pc = "update" -> comparison.toUpdate
                   [] OTHER -> comparison.toDelete)
    /\ pc' = NextStep(pc, manager)
    /\ idx' = 1
    /\ result' = IF pc = "delete"
                 THEN [result EXCEPT !.unchanged = Paths_(comparison.unchanged)]
                 ELSE result
    /\ UNCHANGED <<dir, providerVars, storeVars, options, scannedFiles,
                   remoteFiles, comparison, calls, runs, prev, last>>

\* line 206: save(); the file write can fail, which is fatal for the run
Save(ok) ==
    /\ pc = "save"
    /\ metadata.loaded
    /\ gitRef' = refAfterSave(manager, metadata, gitRef, inRepo, worktree)
    /\ calls' = Bump(calls, "save")
    /\ IF ok
       THEN /\ fileDoc' =
                 IF saveWritesFile(manager, historyWritable(manager, gitRef,
                                                            inRepo, worktree))
                 THEN fileAfterSave(metadata) ELSE fileDoc
            /\ pc' = NextStep(pc, manager)
       ELSE fileDoc' = fileDoc /\ pc' = "failed"
    /\ UNCHANGED <<dir, providerVars, manager, metadata, inRepo, worktree, options,
                   runVars, runs, prev, last>>

\* lines 209-212: pushNotes, which swallows every error
Push ==
    /\ pc = "push"
    /\ calls' = Bump(calls, "push")
    /\ pc' = NextStep(pc, manager)
    /\ UNCHANGED <<dir, providerVars, storeVars, options, runVars, runs, prev, last>>

\* line 215: provider.cleanup()
Cleanup ==
    /\ pc = "cleanup"
    /\ remote' = cleanupStore(provider, remote)
    /\ initialized' = cleanupInitialized(provider, initialized)
    /\ calls' = Bump(calls, "cleanup")
    /\ pc' = NextStep(pc, manager)
    /\ UNCHANGED <<dir, provider, nextId, storeVars, options, runVars, runs,
                   prev, last>>

\* the sync command (index.ts): the status the process exits with once
\* sync() returned its result (done) or threw (failed)
exitCodeOfFatalOnly(step, res) == IF step = "failed" THEN 1 ELSE 0
\* `process.exit(result.failed.length > 0 ? 1 : 0)`, `process.exit(1)` in catch
exitCode(step, res) ==
    IF step = "failed" THEN 1
    ELSE IF Len(res.failed) > 0 THEN 1 ELSE 0

\* the run is over: sync() returned its result (done) or threw (failed)
Return ==
    /\ pc \in {"done", "failed"}
    /\ prev' = [clean |-> pc = "done" /\ ~options.dryRun /\ result.failed = <<>>]
    /\ pc' = "idle"
    /\ scannedFiles' = <<>>
    /\ remoteFiles' = <<>>
    /\ comparison' = EmptyPlan
    /\ idx' = 0
    /\ result' = EmptyResult
    /\ calls' = NoCalls
    /\ options' = [options EXCEPT !.dryRun = FALSE]
    /\ last' = NoCall
    /\ UNCHANGED <<dir, providerVars, storeVars, runs>>

Next ==
    \/ \E p \in Paths, c \in Contents : WriteFile(p, c)
    \/ \E p \in Paths : Unlink(p)
    \/ \E id \in Ids : RemoteVanish(id)
    \/ Restart
    \/ \E d \in BOOLEAN : StartSync(d)
    \/ \E e \in BOOLEAN : VerifyStore(e)
    \/ Scan
    \/ ListFiles
    \/ Compare
    \/ \E ok \in BOOLEAN : AddOne(ok)
    \/ \E o \in {"ok", "partial", "fail"} : UpdateOne(o)
    \/ \E ok \in BOOLEAN : DeleteOne(ok)
    \/ EndLoop
    \/ \E ok \in BOOLEAN : Save(ok)
    \/ Push
    \/ Cleanup
    \/ Return

Spec == Init /\ [][Next]_vars

\* ------------------------------------------- compareFiles on drawn inputs
\* The plan computed from a drawn directory, include patterns, loaded
\* mapping and remote store: the scan, list and compare steps of a dry run.
SyncedMetadata(p, c) == enrichMetadata("mock", c, scanMetadata(p, c))

\* loaded mappings: any entry per path, remote identifiers not shared
MappingChoices ==
    {f \in {[p \in Paths |->
                IF ids[p] = 0 THEN NoEntry
                ELSE [fileId |-> ids[p], metadata |-> SyncedMetadata(p, cs[p]),
                      version |-> 1]] :
             ids \in [Paths -> 0..MaxId], cs \in [Paths -> Contents]} :
        \A p, q \in Paths : p # q /\ HasEntry(f[p]) => f[p].fileId # f[q].fileId}

\* a remote file the engine did not upload: the listing finds no path, no
\* hash and no size in its attributes
ForeignMetadata == [NoMetadata EXCEPT !.mimeType = "text/markdown"]

RemoteChoices ==
    [Ids -> {NoMetadata, ForeignMetadata}
               \cup {SyncedMetadata(p, c) : p \in Paths, c \in Contents}]

\* the root directory given to the run, and user-supplied excludes
Directories == {"root", "unlistable"}
ExcludeChoices == {<<>>, <<"a.md">>}

InitCompare ==
    /\ dir \in [Paths -> {Unreadable} \cup (0..MaxContent)]
    /\ provider = "mock"
    /\ initialized = TRUE
    /\ remote \in RemoteChoices
    /\ nextId = MaxId + 1
    /\ manager = "file"
    /\ \E f \in MappingChoices : metadata = [FreshMetadata EXCEPT !.files = f]
    /\ fileDoc = MissingDoc
    /\ gitRef = MissingDoc
    /\ inRepo = TRUE
    /\ worktree = CleanTree
    /\ last = NoCall
    /\ \E d \in Directories, pats \in PatternChoices, excl \in ExcludeChoices :
          /\ options = [directory |-> d, patterns |-> pats, exclude |-> excl,
                        dryRun |-> TRUE]
          \* what is in a directory that cannot be listed plays no part
          /\ d = "unlistable" => dir = [p \in Paths |-> 1]
    /\ pc = "scan"
    /\ scannedFiles = <<>>
    /\ remoteFiles = <<>>
    /\ comparison = EmptyPlan
    /\ idx = 0
    /\ result = EmptyResult
    /\ calls = NoCalls
    /\ runs = 1
    /\ prev = [clean |-> FALSE]

NextCompare == Scan \/ ListFiles \/ Compare

SpecCompare == InitCompare /\ [][NextCompare]_vars

\* ------------------------------------------------ the state store's API
\* A client that calls the state store directly (the show-metadata command,
\* the unit tests), for each of the three managers and whatever was
\* persisted before.
MaxApiSaves == 2
MaxStoreVersion == 2

PathIndex(p) == CHOOSE i \in 1..Len(PathSeq) : PathSeq[i] = p

StoreEntries(p) ==
    {[fileId |-> PathIndex(p), metadata |-> SyncedMetadata(p, 1), version |-> v] :
        v \in 1..MaxStoreVersion}

StoreMappings == {f \in [Paths -> UNION {StoreEntries(p) : p \in Paths} \cup {NoEntry}] :
                     \A p \in Paths : HasEntry(f[p]) => f[p] \in StoreEntries(p)}

StoreDocs ==
    {MissingDoc, CorruptDoc, JsonDoc}
        \cup {DocOf([FreshMetadata EXCEPT !.files = f]) : f \in StoreMappings}

\* working trees a repository can be in before the manager is used
TreeChoices ==
    [head : {"branch", "detached"}, files : {"clean", "dirty"},
     identity : BOOLEAN]

\* prev.written[p]: what the client last wrote for p (Unwritten: nothing yet)
Unwritten == [fileId |-> -1, metadata |-> NoMetadata, version |-> 0]

InitStore ==
    /\ dir = [p \in Paths |-> 1]
    /\ provider = "mock"
    /\ initialized = TRUE
    /\ remote = [i \in Ids |-> IF i = 1 THEN SyncedMetadata(PathSeq[1], 1)
                                ELSE NoMetadata]
    /\ nextId = MaxId + 1
    /\ manager \in Managers
    /\ metadata = NullMetadata
    /\ fileDoc \in StoreDocs
    /\ gitRef \in StoreDocs
    /\ inRepo \in BOOLEAN
    /\ worktree \in TreeChoices
    \* what a manager never looks at is fixed
    /\ manager = "file" => ~inRepo
    /\ ~inRepo => gitRef = MissingDoc
    /\ (manager # "branch" \/ gitRef # MissingDoc) => worktree = CleanTree
    /\ options = [directory |-> "root", patterns |-> DefaultPatterns,
                  exclude |-> <<>>, dryRun |-> FALSE]
    /\ pc = "api"
    /\ scannedFiles = <<>>
    /\ remoteFiles = <<>>
    /\ comparison = EmptyPlan
    /\ idx = 0
    /\ result = EmptyResult
    /\ calls = NoCalls
    /\ runs = 0
    /\ prev = [clean |-> FALSE, written |-> [p \in Paths |-> Unwritten]]
    /\ last = NoCall

apiFrame == <<dir, providerVars, manager, fileDoc, inRepo, options, pc,
              scannedFiles, remoteFiles, idx, result, runs>>

\* load()
ApiLoad ==
    /\ pc = "api"
    /\ metadata' = Load
    /\ gitRef' = RefAfterLoad
    /\ worktree' = TreeAfterCall
    /\ last' = [NoCall EXCEPT !.op = "load", !.ret = Load]
    /\ UNCHANGED <<apiFrame, comparison, calls, prev>>

\* getFileEntry(p): `metadata.files[filePath] || null`
ApiGetFileEntry(p) ==
    /\ pc = "api"
    /\ metadata' = Load
    /\ gitRef' = RefAfterLoad
    /\ worktree' = TreeAfterCall
    /\ last' = [op |-> "getFileEntry", path |-> p, threw |-> StoreThrows,
                ret |-> IF StoreThrows THEN NoEntry
                        ELSE getFileEntry(manager, metadata, fileDoc, gitRef,
                                          inRepo, worktree, p)]
    /\ UNCHANGED <<apiFrame, comparison, calls, prev>>

ApiSetFileEntry(p, entry) ==
    /\ pc = "api"
    /\ metadata' = setFileEntry(manager, metadata, fileDoc, gitRef, inRepo,
                                worktree, p, entry)
    /\ gitRef' = RefAfterLoad
    /\ worktree' = TreeAfterCall
    /\ last' = [NoCall EXCEPT !.op = "setFileEntry", !.path = p,
                              !.threw = StoreThrows]
    /\ prev' = IF StoreThrows THEN prev
               ELSE [prev EXCEPT !.written[p] = entry]
    /\ UNCHANGED <<apiFrame, comparison, calls>>

ApiRemoveFileEntry(p) ==
    /\ pc = "api"
    /\ metadata' = removeFileEntry(manager, metadata, fileDoc, gitRef, inRepo,
                                   worktree, p)
    /\ gitRef' = RefAfterLoad
    /\ worktree' = TreeAfterCall
    /\ last' = [NoCall EXCEPT !.op = "removeFileEntry", !.path = p,
                              !.threw = StoreThrows]
    /\ prev' = IF StoreThrows THEN prev
               ELSE [prev EXCEPT !.written[p] = NoEntry]
    /\ UNCHANGED <<apiFrame, comparison, calls>>

\* cleanup(remoteFiles) for a listing that holds the ids `ids`
ApiCleanup(ids) ==
    /\ pc = "api"
    /\ metadata' = cleanup(manager, metadata, fileDoc, gitRef, inRepo, worktree,
                           ids)
    /\ gitRef' = RefAfterLoad
    /\ worktree' = TreeAfterCall
    /\ last' = [NoCall EXCEPT !.op = "cleanup", !.ret = ids,
                              !.threw = StoreThrows]
    /\ UNCHANGED <<apiFrame, comparison, calls, prev>>

\* compareFiles of the scanned directory and the remote listing; the first
\* `metadata.files[...]` throws when the loaded value has no `files`
ApiCompareFiles ==
    /\ pc = "api"
    /\ metadata' = Load
    /\ gitRef' = RefAfterLoad
    /\ worktree' = TreeAfterCall
    /\ LET local == scan(dir, options)
           throws == StoreThrows /\ (Len(local) > 0 \/ Len(listFiles(remote)) > 0)
       IN /\ comparison' =
                IF throws THEN comparison
                ELSE compareFiles([i \in 1..Len(local) |-> LocalItem(local[i])],
                                  listFiles(remote), Load.files)
          /\ last' = [NoCall EXCEPT !.op = "compareFiles", !.threw = throws]
    /\ UNCHANGED <<apiFrame, calls, prev>>

\* save(): 'No metadata to save' unless something was loaded. gitOk: the git
\* commands that write the note or the commit succeed; ok: the write of the
\* file document succeeds (when it fails, save() throws)
ApiSave(ok, gitOk) ==
    /\ pc = "api"
    /\ metadata.loaded
    /\ calls.save < MaxApiSaves
    /\ calls' = Bump(calls, "save")
    /\ gitRef' = IF gitOk
                 THEN refAfterSave(manager, metadata, gitRef, inRepo, worktree)
                 ELSE RefAfterLoad
    /\ worktree' = TreeAfterCall
    /\ fileDoc' =
          IF ok /\ saveWritesFile(manager,
                      gitOk /\ historyWritable(manager, gitRef, inRepo, worktree))
          THEN fileAfterSave(metadata) ELSE fileDoc
    /\ last' = [NoCall EXCEPT !.op = "save", !.threw = ~ok,
                              !.ret = [git |-> gitOk, file |-> ok]]
    /\ UNCHANGED <<dir, providerVars, manager, metadata, inRepo, options, pc,
                   runVars, runs, prev>>

NextStore ==
    \/ ApiLoad
    \/ \E p \in Paths : ApiGetFileEntry(p)
    \/ \E p \in Paths : \E e \in StoreEntries(p) : ApiSetFileEntry(p, e)
    \/ \E p \in Paths : ApiRemoveFileEntry(p)
    \/ ApiCompareFiles
    \/ \E ok, gitOk \in BOOLEAN : ApiSave(ok, gitOk)

SpecStore == InitStore /\ [][NextStore]_vars

\* a client that loads, writes entries and removes the stale ones
NextCleanup ==
    \/ ApiLoad
    \/ \E p \in Paths : \E e \in StoreEntries(p) : ApiSetFileEntry(p, e)
    \/ \E ids \in SUBSET Ids : ApiCleanup(ids)

SpecCleanup == InitStore /\ [][NextCleanup]_vars

\* ------------------------------------ the branch of the git-branch store
\* The refs of a repository by name, the environment variable
\* VECTORNATOR_METADATA_BRANCH of the process ("": not set), and a
\* GitBranchMetadataManager that loads, writes an entry and saves. In this
\* specification gitRef is the table of the repository's branches.
DEFAULT_METADATA_BRANCH == "metadata/vectornator"
BranchNames == {"vectornator-metadata", DEFAULT_METADATA_BRANCH, "my-custom-branch"}
EnvChoices == {"", "my-custom-branch"}

\* constants: `process.env[ENV_METADATA_BRANCH] || DEFAULT_METADATA_BRANCH`
getMetadataBranch(env) == IF env # "" THEN env ELSE DEFAULT_METADATA_BRANCH

\* GitBranchMetadataManager: `private readonly metadataBranch`
metadataBranch(env) == "vectornator-metadata"

BranchDocs ==
    {MissingDoc, DocOf(FreshMetadata)}
        \cup {DocOf([FreshMetadata EXCEPT !.files[p] = e]) :
                 p \in {PathSeq[1]}, e \in StoreEntries(PathSeq[1])}

InitBranch ==
    /\ dir = [p \in Paths |-> 1]
    /\ provider = "mock"
    /\ initialized = TRUE
    /\ remote = [i \in Ids |-> NoMetadata]
    /\ nextId = MaxId + 1
    /\ manager = "branch"
    /\ metadata = NullMetadata
    /\ fileDoc = MissingDoc
    /\ gitRef \in [BranchNames -> BranchDocs]
    /\ inRepo = TRUE
    /\ worktree = CleanTree
    /\ \E e \in EnvChoices :
          options = [directory |-> "root", patterns |-> DefaultPatterns,
                     exclude |-> <<>>, dryRun |-> FALSE, env |-> e]
    /\ pc = "api"
    /\ scannedFiles = <<>>
    /\ remoteFiles = <<>>
    /\ comparison = EmptyPlan
    /\ idx = 0
    /\ result = EmptyResult
    /\ calls = NoCalls
    /\ runs = 0
    /\ prev = [clean |-> FALSE]
    /\ last = NoCall

\* the branch the manager's git commands name
BranchRef == gitRef[metadataBranch(options.env)]

BranchLoad ==
    /\ pc = "api"
    /\ metadata' = load(manager, metadata, fileDoc, BranchRef, inRepo, worktree)
    /\ gitRef' = [gitRef EXCEPT ![metadataBranch(options.env)] =
                     refAfterLoad(manager, BranchRef, inRepo, worktree)]
    /\ worktree' = treeAfterCall(manager, BranchRef, inRepo, worktree)
    /\ last' = [NoCall EXCEPT !.op = "load"]
    /\ UNCHANGED <<apiFrame, comparison, calls, prev>>

BranchSetFileEntry(p, entry) ==
    /\ pc = "api"
    /\ metadata' = setFileEntry(manager, metadata, fileDoc, BranchRef, inRepo,
                                worktree, p, entry)
    /\ gitRef' = [gitRef EXCEPT ![metadataBranch(options.env)] =
                     refAfterLoad(manager, BranchRef, inRepo, worktree)]
    /\ worktree' = treeAfterCall(manager, BranchRef, inRepo, worktree)
    /\ last' = [NoCall EXCEPT !.op = "setFileEntry", !.path = p]
    /\ UNCHANGED <<apiFrame, comparison, calls, prev>>

BranchSave ==
    /\ pc = "api"
    /\ metadata.loaded
    /\ calls.save < MaxApiSaves
    /\ calls' = Bump(calls, "save")
    /\ gitRef' = [gitRef EXCEPT ![metadataBranch(options.env)] =
                     refAfterSave(manager, metadata, BranchRef, inRepo, worktree)]
    /\ worktree' = treeAfterCall(manager, BranchRef, inRepo, worktree)
    /\ fileDoc' = fileAfterSave(metadata)
    /\ last' = [NoCall EXCEPT !.op = "save"]
    /\ UNCHANGED <<dir, providerVars, manager, metadata, inRepo, options, pc,
                   runVars, runs, prev>>

NextBranch ==
    \/ BranchLoad
    \/ \E e \in StoreEntries(PathSeq[1]) : BranchSetFileEntry(PathSeq[1], e)
    \/ BranchSave

SpecBranch == InitBranch /\ [][NextBranch]_vars

\* ------------------------------------------------- the provider lifecycle
\* A client of a provider derived from BaseVectorStoreProvider: it calls
\* initialize (which fails or not), the guarded methods and cleanup in any
\* order. prev.ready records that an initialize completed and no cleanup was
\* called since.
GuardedOps ==
    {"verifyStore", "createStore", "listFiles", "getFile", "uploadFile",
     "updateFile", "deleteFile"}

InitLifecycle ==
    /\ dir = [p \in Paths |-> 1]
    /\ provider \in {k \in Providers : BaseDerived(k)}
    /\ initialized = FALSE
    /\ remote = EmptyRemote
    /\ nextId = 1
    /\ manager = "file"
    /\ metadata = NullMetadata
    /\ fileDoc = MissingDoc
    /\ gitRef = MissingDoc
    /\ inRepo = FALSE
    /\ worktree = CleanTree
    /\ options = [directory |-> "root", patterns |-> DefaultPatterns,
                  exclude |-> <<>>, dryRun |-> FALSE]
    /\ pc = "api"
    /\ scannedFiles = <<>>
    /\ remoteFiles = <<>>
    /\ comparison = EmptyPlan
    /\ idx = 0
    /\ result = EmptyResult
    /\ calls = NoCalls
    /\ runs = 0
    /\ prev = [clean |-> FALSE, ready |-> FALSE]
    /\ last = NoCall

lifeFrame == <<dir, provider, storeVars, options, pc, runVars, calls, runs>>

\* initialize(config)
Initialize(configOk, connectOk) ==
    /\ pc = "api"
    /\ initialized' = initialize(initialized, configOk, connectOk)
    /\ prev' = [prev EXCEPT !.ready = @ \/ (configOk /\ connectOk)]
    /\ last' = [NoCall EXCEPT !.op = "initialize",
                              !.threw = ~(configOk /\ connectOk)]
    /\ UNCHANGED <<lifeFrame, remote, nextId>>

\* one of the guarded methods; requestOk: the service performs the request
GuardedCall(op, fileId, fileMetadata, requestOk) ==
    /\ pc = "api"
    /\ LET guard == ensureInitialized(initialized)
           done == guard = "ok" /\ requestOk
                      /\ (op = "updateFile" => CanUpdate(provider, remote, fileId))
                      /\ (op = "deleteFile" => CanDelete(provider, remote, fileId))
       IN /\ (done /\ (op = "uploadFile"
                          \/ (op = "updateFile" /\ UpdateUploads(provider))))
                => nextId <= MaxId
          /\ remote' =
                CASE done /\ op = "uploadFile" ->
                        uploadFile(remote, nextId, fileMetadata)
                  [] done /\ op = "updateFile" ->
                        updateFile(provider, remote, fileId, nextId, fileMetadata)
                  [] done /\ op = "deleteFile" -> deleteFile(remote, fileId)
                  [] OTHER -> remote
          /\ nextId' =
                IF done /\ (op = "uploadFile"
                               \/ (op = "updateFile" /\ UpdateUploads(provider)))
                THEN nextId + 1 ELSE nextId
          /\ last' = [op |-> op, path |-> fileMetadata.path, threw |-> ~done,
                      ret |-> IF guard # "ok" THEN guard
                              ELSE IF done THEN "ok" ELSE "request failed"]
    /\ UNCHANGED <<lifeFrame, initialized, prev>>

\* cleanup()
ProviderCleanup ==
    /\ pc = "api"
    /\ remote' = cleanupStore(provider, remote)
    /\ initialized' = cleanupInitialized(provider, initialized)
    /\ prev' = [prev EXCEPT !.ready = FALSE]
    /\ last' = [NoCall EXCEPT !.op = "cleanup"]
    /\ UNCHANGED <<lifeFrame, nextId>>

NextLifecycle ==
    \/ \E configOk, connectOk \in BOOLEAN : Initialize(configOk, connectOk)
    \/ \E op \in GuardedOps, id \in Ids, p \in Paths, c \in Contents,
          ok \in BOOLEAN :
          GuardedCall(op, id, SyncedMetadata(p, c), ok)
    \/ ProviderCleanup

SpecLifecycle == InitLifecycle /\ [][NextLifecycle]_vars

\* --------------------------------------------- the chunked upload (OpenAI)
\* The additions loop of a run with the OpenAI provider, one step per await
\* of uploadFileInChunks. prev.fileSize[p] is the byte length of p's content
\* and prev.chunkSize the provider's chunk size; remoteFiles holds the parts
\* the service accepted and scannedFiles the progress reports made.
MaxBytes == 4
MaxChunkSize == 3

Min(a, b) == IF a < b THEN a ELSE b

\* `Math.ceil(fileSize / this.chunkSize)`
totalChunks(fileSize, chunkSize) == (fileSize + chunkSize - 1) \div chunkSize

\* `i * this.chunkSize`
startByte(i, chunkSize) == i * chunkSize

\* variant without the clamp to the file size
endByteUnclamped(i, chunkSize, fileSize) == startByte(i, chunkSize) + chunkSize
\* `Math.min(startByte + this.chunkSize, fileSize)`
endByte(i, chunkSize, fileSize) ==
    Min(startByte(i, chunkSize) + chunkSize, fileSize)

InitChunks ==
    /\ dir = [p \in Paths |-> 1]
    /\ provider = "openai"
    /\ initialized = TRUE
    /\ remote = EmptyRemote
    /\ nextId = 1
    /\ manager = "file"
    /\ metadata = NullMetadata
    /\ fileDoc = MissingDoc
    /\ gitRef = MissingDoc
    /\ inRepo = FALSE
    /\ worktree = CleanTree
    /\ options = [directory |-> "root", patterns |-> DefaultPatterns,
                  exclude |-> <<>>, dryRun |-> FALSE]
    /\ pc = "add"
    /\ scannedFiles = <<>>
    /\ remoteFiles = <<>>
    /\ comparison = [EmptyPlan EXCEPT !.toAdd = [k \in 1..Len(PathSeq) |->
                                                    [path |-> PathSeq[k]]]]
    /\ idx = 0
    /\ result = EmptyResult
    /\ calls = NoCalls
    /\ runs = 1
    /\ \E c \in 1..MaxChunkSize, sizes \in [Paths -> 0..MaxBytes] :
          prev = [clean |-> FALSE, chunkSize |-> c, fileSize |-> sizes]
    /\ last = NoCall

chunkFrame == <<dir, providerVars, storeVars, options, comparison, calls,
                runs, prev>>

\* the item of the additions loop being processed
CurrentItem == Len(result.added) + Len(result.failed) + 1
CurrentPath == comparison.toAdd[CurrentItem].path

\* uploadFile up to the loop of uploadFileInChunks: createUpload, which can
\* fail
CreateUpload(ok) ==
    /\ pc = "add"
    /\ CurrentItem <= Len(comparison.toAdd)
    /\ IF ok
       THEN pc' = "chunks" /\ idx' = 0 /\ UNCHANGED result
       ELSE /\ result' = [result EXCEPT !.failed = Append(@, Failure(CurrentPath))]
            /\ UNCHANGED <<pc, idx>>
    /\ last' = [NoCall EXCEPT !.op = "createUpload", !.path = CurrentPath,
                              !.threw = ~ok]
    /\ UNCHANGED <<chunkFrame, scannedFiles, remoteFiles>>

\* one iteration of the loop: the progress report, then uploadFilePart,
\* whose failure leaves uploadFile and is caught by the additions loop
UploadFilePart(ok) ==
    /\ pc = "chunks"
    /\ idx < totalChunks(prev.fileSize[CurrentPath], prev.chunkSize)
    /\ scannedFiles' = Append(scannedFiles,
          [file |-> CurrentPath, current |-> idx + 1,
           total |-> totalChunks(prev.fileSize[CurrentPath], prev.chunkSize)])
    /\ IF ok
       THEN /\ remoteFiles' = Append(remoteFiles,
                  [file |-> CurrentPath, partNumber |-> idx + 1,
                   startByte |-> startByte(idx, prev.chunkSize),
                   endByte |-> endByte(idx, prev.chunkSize,
                                       prev.fileSize[CurrentPath])])
            /\ idx' = idx + 1
            /\ UNCHANGED <<pc, result>>
       ELSE /\ result' = [result EXCEPT !.failed = Append(@, Failure(CurrentPath))]
            /\ pc' = "add"
            /\ UNCHANGED <<remoteFiles, idx>>
    /\ last' = [NoCall EXCEPT !.op = "uploadFilePart", !.path = CurrentPath,
                              !.threw = ~ok]
    /\ UNCHANGED chunkFrame

\* the loop is exhausted: completeUpload and addFileToVectorStore, then the
\* additions loop records the path
CompleteUpload(ok) ==
    /\ pc = "chunks"
    /\ idx >= totalChunks(prev.fileSize[CurrentPath], prev.chunkSize)
    /\ result' = IF ok THEN [result EXCEPT !.added = Append(@, CurrentPath)]
                 ELSE [result EXCEPT !.failed = Append(@, Failure(CurrentPath))]
    /\ pc' = "add"
    /\ last' = [NoCall EXCEPT !.op = "completeUpload", !.path = CurrentPath,
                              !.threw = ~ok]
    /\ UNCHANGED <<chunkFrame, scannedFiles, remoteFiles, idx>>

NextChunks ==
    \/ \E ok \in BOOLEAN : CreateUpload(ok)
    \/ \E ok \in BOOLEAN : UploadFilePart(ok)
    \/ \E ok \in BOOLEAN : CompleteUpload(ok)

SpecChunks == InitChunks /\ [][NextChunks]_vars

\* --------------------------------------- push and fetch of the history
\* pushNotes/fetchNotes and pushMetadata/fetchMetadata of the two
\* history-backed managers. The outcome of the git command is the
\* environment's: it succeeds, there is no remote 'origin', the ref is not
\* there, or git fails in another way (outside a repository it always does).
ExchangeOutcomes == {"ok", "noRemote", "noRef", "failed"}

\* variant of the catch blocks that rethrows what they do not recognise
exchangeRethrows(m, outcome) == outcome = "failed"
\* `try { await execAsync(...) } catch { ... }`: every error is swallowed
exchangeThrows(m, outcome) == FALSE

\* `git fetch origin <ref>:<ref>`: the ref becomes what the remote holds
refAfterFetch(ref, outcome, remoteDoc) ==
    IF outcome = "ok" THEN remoteDoc ELSE ref

InitExchange ==
    /\ InitStore
    /\ manager \in {"notes", "branch"}
    /\ fileDoc \in {MissingDoc, DocOf(FreshMetadata)}
    /\ worktree = CleanTree

ApiFetch(outcome, remoteDoc) ==
    /\ pc = "api"
    /\ manager \in {"notes", "branch"}
    /\ ~inRepo => outcome = "failed"
    /\ gitRef' = refAfterFetch(gitRef, outcome, remoteDoc)
    /\ last' = [NoCall EXCEPT !.op = "fetch", !.ret = outcome,
                              !.threw = exchangeThrows(manager, outcome)]
    /\ UNCHANGED <<apiFrame, metadata, worktree, comparison, calls, prev>>

ApiPush(outcome) ==
    /\ pc = "api"
    /\ manager \in {"notes", "branch"}
    /\ ~inRepo => outcome = "failed"
    /\ outcome = "ok" => gitRef # MissingDoc
    /\ last' = [NoCall EXCEPT !.op = "push", !.ret = outcome,
                              !.threw = exchangeThrows(manager, outcome)]
    /\ UNCHANGED <<apiFrame, metadata, gitRef, worktree, comparison, calls, prev>>

NextExchange ==
    \/ ApiLoad
    \/ \E p \in Paths : \E e \in StoreEntries(p) : ApiSetFileEntry(p, e)
    \/ \E outcome \in ExchangeOutcomes : \E d \in StoreDocs : ApiFetch(outcome, d)
    \/ \E outcome \in ExchangeOutcomes : ApiPush(outcome)

SpecExchange == InitExchange /\ [][NextExchange]_vars

\* ------------------------------------- save() and a concurrent reader
\* MetadataManager.save writes the document with fs.writeFile, which opens
\* the file with truncation and then writes the bytes; another process can
\* read the file between the two.
InitSaveRace ==
    /\ dir = [p \in Paths |-> 1]
    /\ provider = "mock"
    /\ initialized = TRUE
    /\ remote = EmptyRemote
    /\ nextId = 1
    /\ manager = "file"
    /\ \E f \in StoreMappings : metadata = [FreshMetadata EXCEPT !.files = f]
    /\ fileDoc \in StoreDocs
    /\ gitRef = MissingDoc
    /\ inRepo = FALSE
    /\ worktree = CleanTree
    /\ options = [directory |-> "root", patterns |-> DefaultPatterns,
                  exclude |-> <<>>, dryRun |-> FALSE]
    /\ pc = "api"
    /\ scannedFiles = <<>>
    /\ remoteFiles = <<>>
    /\ comparison = EmptyPlan
    /\ idx = 0
    /\ result = EmptyResult
    /\ calls = NoCalls
    /\ runs = 0
    /\ prev = [clean |-> FALSE, before |-> fileDoc, after |-> fileDoc]
    /\ last = NoCall

\* save() up to the open of fs.writeFile (flag 'w' truncates the file)
SaveOpen ==
    /\ pc = "api"
    /\ calls.save < MaxApiSaves
    /\ calls' = Bump(calls, "save")
    /\ prev' = [clean |-> FALSE, before |-> fileDoc, after |-> DocOf(metadata)]
    /\ fileDoc' = TruncatedDoc
    /\ pc' = "writing"
    /\ UNCHANGED <<dir, providerVars, manager, metadata, gitRef, inRepo,
                   worktree, options, runVars, runs, last>>

\* the write of fs.writeFile completes and save() returns
SaveWrite ==
    /\ pc = "writing"
    /\ fileDoc' = fileAfterSave(metadata)
    /\ pc' = "api"
    /\ UNCHANGED <<dir, providerVars, manager, metadata, gitRef, inRepo,
                   worktree, options, runVars, calls, runs, prev, last>>

\* another process reads the persisted document (fs.readFile of load())
ReadFile ==
    /\ last' = [NoCall EXCEPT !.op = "readFile", !.ret = fileDoc]
    /\ UNCHANGED <<dir, providerVars, storeVars, options, pc, runVars, calls,
                   runs, prev>>

NextSaveRace == SaveOpen \/ SaveWrite \/ ReadFile

SpecSaveRace == InitSaveRace /\ [][NextSaveRace]_vars

\* ------------------------------------------------ enrichMetadata on inputs
\* enrichMetadata applied by each provider to any base metadata and bytes.
BaseMetadataChoices ==
    [path : Paths,
     hash : {sha256(c) : c \in Contents} \cup {md5(c) : c \in Contents},
     size : Contents,
     lastModified : Contents,
     mimeType : {"text/markdown", "text/plain"},
     encoding : {"utf-8", "latin1"},
     provider : {""},
     storeId : {""}]

InitEnrich ==
    /\ dir = [p \in Paths |-> 1]
    /\ provider \in Providers
    /\ initialized = TRUE
    /\ remote = EmptyRemote
    /\ nextId = 1
    /\ manager = "file"
    /\ metadata = NullMetadata
    /\ fileDoc = MissingDoc
    /\ gitRef = MissingDoc
    /\ inRepo = FALSE
    /\ worktree = CleanTree
    /\ options = [directory |-> "root", patterns |-> DefaultPatterns,
                  exclude |-> <<>>, dryRun |-> FALSE]
    /\ pc = "api"
    /\ scannedFiles = <<>>
    /\ remoteFiles = <<>>
    /\ comparison = EmptyPlan
    /\ idx = 0
    /\ result = EmptyResult
    /\ calls = NoCalls
    /\ runs = 0
    /\ \E c \in Contents, b \in BaseMetadataChoices :
          prev = [clean |-> FALSE, content |-> c, baseMetadata |-> b]
    /\ last = NoCall

\* provider.enrichMetadata(path, content, baseMetadata) returns
EnrichMetadata ==
    /\ pc = "api"
    /\ last' = [NoCall EXCEPT
                   !.op = "enrichMetadata",
                   !.path = prev.baseMetadata.path,
                   !.ret = enrichMetadata(provider, prev.content,
                                          prev.baseMetadata)]
    /\ pc' = "done"
    /\ UNCHANGED <<dir, providerVars, storeVars, options, runVars, calls,
                   runs, prev>>

NextEnrich == EnrichMetadata

SpecEnrich == InitEnrich /\ [][NextEnrich]_vars

\* ------------------------------------------- OpenAIProvider.listFiles
\* The paginated listing: one request per iteration of `while (hasMore)`,
\* with `after` set to the last cursor received. The server returns the
\* next PageSize files after the cursor in id order and says whether more
\* remain; whether a page that has more carries a last_id is the server's.
PageSize == 1
MaxListed == 4

\* the ids of the store after the cursor (0: no cursor), in id order
IdsAfter(store, cursor) ==
    SelectSeq(IdSeq, LAMBDA i : InStore(store, i) /\ i > cursor)

\* the response to GET vector_stores/{id}/files?limit=..&after=cursor
PageAfter(store, cursor, withLastId) ==
    LET rest == IdsAfter(store, cursor)
        n == IF Len(rest) < PageSize THEN Len(rest) ELSE PageSize
        hasMore == Len(rest) > n
    IN [data |-> [k \in 1..n |-> [id |-> rest[k], metadata |-> store[rest[k]]]],
        has_more |-> hasMore,
        last_id |-> IF n > 0 /\ withLastId THEN rest[n] ELSE 0]

InitList ==
    /\ dir = [p \in Paths |-> 1]
    /\ provider = "openai"
    /\ initialized = TRUE
    /\ remote \in RemoteChoices
    /\ nextId = MaxId + 1
    /\ manager = "file"
    /\ metadata = NullMetadata
    /\ fileDoc = MissingDoc
    /\ gitRef = MissingDoc
    /\ inRepo = FALSE
    /\ worktree = CleanTree
    /\ options = [directory |-> "root", patterns |-> DefaultPatterns,
                  exclude |-> <<>>, dryRun |-> FALSE]
    /\ pc = "listing"
    /\ scannedFiles = <<>>
    /\ remoteFiles = <<>>
    /\ comparison = EmptyPlan
    /\ idx = 0
    /\ result = EmptyResult
    /\ calls = NoCalls
    /\ runs = 0
    /\ prev = [clean |-> FALSE]
    /\ last = NoCall

\* one iteration of the loop of listFiles: remoteFiles is allFiles, idx is
\* lastId (0 for null)
ListPage(withLastId) ==
    /\ pc = "listing"
    /\ Len(remoteFiles) < MaxListed
    /\ LET response == PageAfter(remote, idx, withLastId)
       IN /\ remoteFiles' = remoteFiles \o response.data
          /\ idx' = IF response.has_more /\ response.last_id # 0
                    THEN response.last_id ELSE idx
          /\ pc' = IF response.has_more THEN "listing" ELSE "done"
          /\ last' = [NoCall EXCEPT !.op = "listPage", !.ret = response]
    /\ UNCHANGED <<dir, providerVars, storeVars, options, scannedFiles,
                   comparison, result, calls, runs, prev>>

NextList == \E withLastId \in BOOLEAN : ListPage(withLastId)

SpecList == InitList /\ [][NextList]_vars

\* ------------------------------------------------------------ properties
CountPath(seq, p) == Cardinality({i \in 1..Len(seq) : seq[i].path = p})
CountOf(seq, x) == Cardinality({i \in 1..Len(seq) : seq[i] = x})

ScannedPaths == {scannedFiles[i].path : i \in 1..Len(scannedFiles)}
EntryPaths == {p \in Paths : HasEntry(metadata.files[p])}
RemoteIds == {remoteFiles[i].id : i \in 1..Len(remoteFiles)}
RemoteCount(p) == Cardinality({i \in Ids : InStore(remote, i) /\ remote[i].path = p})

\* compareFiles has returned in the current run
PlanReady == idx >= 1
\* compareFiles has returned and nothing was executed since
JustCompared ==
    idx = 1 /\ (pc = "add" \/ (pc = "done" /\ options.dryRun))
\* sync() returned the result of a run that was not a dry run
Returned == pc = "done" /\ ~options.dryRun
RunSucceeded == Returned /\ result.failed = <<>>

\* C1: after a non-dry run without failures the mapping's paths are exactly
\* the local file set, every entry's fileId is in the remote store, and the
\* remote store holds exactly one entry per local path (and no other).
C1_Convergence ==
    RunSucceeded =>
        /\ EntryPaths = LocalPaths
        /\ \A p \in EntryPaths : InStore(remote, metadata.files[p].fileId)
        /\ \A p \in Paths : RemoteCount(p) = IF p \in LocalPaths THEN 1 ELSE 0

\* C2: when the previous run completed without failures and neither the
\* local files nor the remote store changed since, the plan of this run has
\* empty toAdd, toUpdate and toDelete and every local path is unchanged.
C2_Idempotence ==
    (prev.clean /\ PlanReady) =>
        /\ comparison.toAdd = <<>>
        /\ comparison.toUpdate = <<>>
        /\ comparison.toDelete = <<>>
        /\ {comparison.unchanged[i].path : i \in 1..Len(comparison.unchanged)}
              = LocalPaths

\* C3: every local path occurs exactly once in toAdd, toUpdate and unchanged
\* taken together.
C3_PlanPartition ==
    PlanReady =>
        \A p \in ScannedPaths :
            CountPath(comparison.toAdd, p) + CountPath(comparison.toUpdate, p)
                + CountPath(comparison.unchanged, p) = 1

\* C4: a local file is in toAdd iff the mapping has no entry for its path or
\* the entry's fileId is not listed; in toUpdate, with the entry's fileId, iff
\* the fileId is listed and the hashes differ; in unchanged iff the fileId is
\* listed and the hashes are equal.
C4_Classification ==
    JustCompared =>
        \A k \in 1..Len(scannedFiles) :
            LET p == scannedFiles[k].path
                entry == metadata.files[p]
                listed == HasEntry(entry) /\ entry.fileId \in RemoteIds
                same == entry.metadata.hash = scannedFiles[k].metadata.hash
            IN /\ CountPath(comparison.toAdd, p) > 0 <=> ~listed
               /\ CountPath(comparison.toUpdate, p) > 0 <=> (listed /\ ~same)
               /\ CountPath(comparison.unchanged, p) > 0 <=> (listed /\ same)
               /\ \A i \in 1..Len(comparison.toUpdate) :
                     comparison.toUpdate[i].path = p =>
                        comparison.toUpdate[i].fileId = entry.fileId

ClaimedIds ==
    {comparison.toUpdate[i].fileId : i \in 1..Len(comparison.toUpdate)}
        \cup {comparison.unchanged[i].fileId : i \in 1..Len(comparison.unchanged)}

\* C5: toDelete holds exactly the listed remote ids that no toUpdate or
\* unchanged item claims, each of them once.
C5_ToDeleteUnclaimed ==
    PlanReady =>
        /\ \A i \in 1..Len(comparison.toDelete) :
              /\ comparison.toDelete[i].fileId \notin ClaimedIds
              /\ comparison.toDelete[i].fileId \in RemoteIds
        /\ \A id \in RemoteIds \ ClaimedIds :
              Cardinality({i \in 1..Len(comparison.toDelete) :
                              comparison.toDelete[i].fileId = id}) = 1

\* C5 witness: a plan with a claimed remote file and one to delete
C5_Witness ==
    /\ PlanReady
    /\ comparison.toDelete # <<>>
    /\ comparison.toUpdate # <<>>

\* this step is a successful update of path p
UpdatedNow(p) ==
    /\ pc = "update"
    /\ Len(result'.updated) > Len(result.updated)
    /\ comparison.toUpdate[idx].path = p

\* C6: while a path has an entry, no step lowers its version, and a
\* successful update of the path raises it by exactly 1.
C6_MonotonicVersion ==
    [][\A p \in Paths :
          (HasEntry(metadata.files[p]) /\ HasEntry(metadata'.files[p])) =>
             /\ metadata'.files[p].version >= metadata.files[p].version
             /\ UpdatedNow(p) =>
                   metadata'.files[p].version = metadata.files[p].version + 1]_vars

\* C7: when exactly one operation of the run failed and it was an add, the
\* run returns, added holds the other to-add paths, failed holds the failing
\* path with the error's message, and among the to-add paths exactly the
\* added ones have an entry.
C7_PartialFailureIsolation ==
    (Returned /\ Len(result.failed) = 1
        /\ calls.uploadFile = Len(result.added) + 1) =>
        LET bad == result.failed[1].path
        IN /\ CountPath(comparison.toAdd, bad) > 0
           /\ result.failed[1].error = "Upload failed"
           /\ Len(result.added) = Len(comparison.toAdd) - 1
           /\ \A p \in Paths :
                 CountOf(result.added, p) =
                    CountPath(comparison.toAdd, p) - (IF p = bad THEN 1 ELSE 0)
           /\ \A p \in Paths :
                 CountPath(comparison.toAdd, p) > 0 =>
                    (HasEntry(metadata.files[p]) <=> CountOf(result.added, p) > 0)

\* C8: a dry run calls none of uploadFile, updateFile, deleteFile,
\* setFileEntry, removeFileEntry and save.
C8_DryRunNoMutation ==
    options.dryRun =>
        /\ calls.uploadFile = 0
        /\ calls.updateFile = 0
        /\ calls.deleteFile = 0
        /\ calls.setFileEntry = 0
        /\ calls.removeFileEntry = 0
        /\ calls.save = 0

\* C8 witness: a dry run returned with a plan that has work in it
C8_Witness ==
    /\ pc = "done"
    /\ options.dryRun
    /\ comparison.toAdd # <<>>
    /\ comparison.toDelete # <<>>

\* C9: no setFileEntry or removeFileEntry happens once save was called, the
\* push happens only after the one save has returned, and a non-dry run that
\* returns has called save exactly once.
C9_SaveOnceAsBarrier ==
    [][/\ (calls'.setFileEntry > calls.setFileEntry
             \/ calls'.removeFileEntry > calls.removeFileEntry) => calls.save = 0
       /\ calls'.push > calls.push => calls.save = 1
       /\ calls'.save > calls.save => calls.save = 0
       /\ (pc' = "done" /\ ~options'.dryRun) => calls'.save = 1]_vars

\* C9 witness: a run with the notes manager that set and removed entries,
\* saved and pushed
C9_Witness ==
    /\ pc = "done"
    /\ calls.setFileEntry > 0
    /\ calls.removeFileEntry > 0
    /\ calls.save = 1
    /\ calls.push = 1

\* C10: only save() changes the persisted state (the file document and the
\* history ref): every step that is not a save leaves both unchanged.
C10_SaveIsCommitPoint ==
    [][calls'.save = calls.save => (fileDoc' = fileDoc /\ gitRef' = gitRef)]_vars

\* C11: a getFileEntry(p) that follows a setFileEntry(p, e) or a
\* removeFileEntry(p), with any calls on other paths in between and no save,
\* returns e, or null after the removal, for each of the three managers.
C11_ReadYourWrites ==
    (last.op = "getFileEntry" /\ prev.written[last.path] # Unwritten) =>
        /\ ~last.threw
        /\ last.ret = prev.written[last.path]

\* C12: when the file backend has nothing loaded and the persisted document
\* is missing, not parseable, or parseable but not a document with entries,
\* load() returns a fresh mapping without entries and does not throw, and a
\* getFileEntry or compareFiles call works on that empty mapping.
C12_LoadNeverFails ==
    [][(/\ manager = "file"
        /\ ~metadata.loaded
        /\ fileDoc.state \in {"missing", "corrupt", "json"}
        /\ last'.op \in {"load", "getFileEntry", "compareFiles"}) =>
          /\ ~last'.threw
          /\ metadata' = FreshMetadata
          /\ last'.op = "getFileEntry" => last'.ret = NoEntry]_vars

\* the history-backed read of load() fails: git is not usable, the note or
\* branch is missing and cannot be created, or the payload is malformed
HistoryReadFails ==
    CASE manager = "notes" -> ~inRepo \/ ~(gitRef.state = "doc")
      [] manager = "branch" ->
           \/ EnsureThrows(gitRef, inRepo, worktree)
           \/ ~(ensureMetadataBranch(gitRef, inRepo, worktree).state = "doc")
      [] OTHER -> FALSE

\* C13: when the history-backed read fails, load() of a history-backed
\* manager does not throw and returns what the file backend's load() returns.
C13_HistoryLoadFallsBack ==
    [][(last'.op = "load" /\ HistoryReadFails) =>
          /\ ~last'.threw
          /\ last'.ret = fileLoad(metadata, fileDoc)]_vars

\* C14: a save() of a history-backed manager whose file write does not fail
\* returns without throwing and leaves the file document equal to the
\* mapping, both when the history write succeeded (the ref then holds the
\* same mapping) and when it failed at some step.
C14_HistorySaveMirrors ==
    [][(last'.op = "save" /\ manager \in {"notes", "branch"}
          /\ last'.ret.file) =>
          /\ ~last'.threw
          /\ fileDoc' = DocOf(metadata)
          /\ (last'.ret.git /\ historyWritable(manager, gitRef, inRepo, worktree))
                => gitRef' = fileDoc']_vars

\* C14 witness: a history-backed save whose git commands failed wrote the
\* mapping, which has an entry, to the file document and returned
C14_Witness ==
    /\ last.op = "save"
    /\ manager \in {"notes", "branch"}
    /\ ~last.ret.git
    /\ ~last.threw
    /\ fileDoc = DocOf(metadata)
    /\ gitRef # fileDoc
    /\ \E p \in Paths : HasEntry(metadata.files[p])

\* C15: no call of a history-backed manager changes the checked-out branch
\* or the working-tree files.
C15_WorkingTreeUntouched ==
    [][(manager \in {"notes", "branch"}) => (worktree' = worktree)]_vars

\* C16: a reader of the persisted file document that runs at any point
\* interleaved with save() sees the complete previous document or the
\* complete new one.
C16_SaveAtomicForReader ==
    last.op = "readFile" => last.ret \in {prev.before, prev.after}

\* verifyStore() of the current run returned false
VerifyReturnedFalse ==
    last.op = "verifyStore" /\ ~last.threw /\ last.ret = FALSE

\* C17: a run whose verifyStore() returned false has failed, without a scan
\* and without any uploadFile, updateFile, deleteFile, setFileEntry,
\* removeFileEntry or save call.
C17_VerifyFalseAborts ==
    VerifyReturnedFalse => (pc = "failed" /\ calls = NoCalls)

\* the paths the run reported as added, updated or unchanged
KeptPaths ==
    {p \in Paths : CountOf(result.added, p) + CountOf(result.updated, p)
                      + CountOf(result.unchanged, p) > 0}

\* C18: after a run without failures every added, updated or unchanged path
\* has an entry whose fileId is in the remote store.
C18_EntriesResolve ==
    RunSucceeded =>
        \A p \in KeptPaths :
            /\ HasEntry(metadata.files[p])
            /\ InStore(remote, metadata.files[p].fileId)

\* the fields every base metadata carries
BaseFields == {"path", "hash", "size", "lastModified", "mimeType", "encoding"}

\* C19: enrichMetadata only adds fields: every field of the base metadata
\* is in the result with the value it had.
C19_EnrichIsAddition ==
    last.op = "enrichMetadata" =>
        \A f \in BaseFields : last.ret[f] = prev.baseMetadata[f]

\* metadata a file can carry besides its path and hash
MaxStamp == 2
Stamps == 0..MaxStamp
TouchChoices == [lastModified : Stamps, size : Stamps]

\* the same local files with other modification times and sizes
Touched(localFiles, t) ==
    [i \in 1..Len(localFiles) |->
        [localFiles[i] EXCEPT
            !.metadata.lastModified = t[localFiles[i].path].lastModified,
            !.metadata.size = t[localFiles[i].path].size]]

\* which path (and remote id) a plan puts in which bucket
Classification(plan) ==
    [toAdd |-> [i \in 1..Len(plan.toAdd) |-> plan.toAdd[i].path],
     toUpdate |-> [i \in 1..Len(plan.toUpdate) |->
                      <<plan.toUpdate[i].path, plan.toUpdate[i].fileId>>],
     toDelete |-> plan.toDelete,
     unchanged |-> plan.unchanged]

C21_FileSelectorFileOnly ==
    options.storage = "file" =>
        /\ manager = "file"
        /\ gitRef = MissingDoc
        /\ calls.push = 0

\* C22: push and fetch of the history-backed managers never raise, and
\* when the git command does not succeed the in-memory mapping, the
\* persisted file, the persisted ref and the working tree are as before.
C22_ExchangeNeverRaises ==
    [][(last'.op \in {"push", "fetch"}) =>
          /\ ~last'.threw
          /\ last'.ret # "ok" =>
                /\ metadata' = metadata
                /\ fileDoc' = fileDoc
                /\ gitRef' = gitRef
                /\ worktree' = worktree]_vars

\* a fetch and a push have failed while a mapping with entries is loaded
C22_Witness ==
    /\ last.op \in {"push", "fetch"}
    /\ last.ret \in {"noRemote", "noRef", "failed"}
    /\ ~last.threw
    /\ metadata.loaded
    /\ \E p \in Paths : HasEntry(metadata.files[p])

\* the path an AddOne step has just appended to result.added
JustAdded == result'.added[Len(result'.added)]

\* C23: a successful add of p leaves an entry for p with version 1, with
\* the id the upload created in the remote store, and with the enriched
\* metadata that was uploaded; the id is never the one of p's old entry.
C23_AddWritesFreshEntry ==
    [][(pc = "add" /\ Len(result'.added) > Len(result.added)) =>
          LET e == metadata'.files[JustAdded]
              scannedFile == FindScanned(scannedFiles, JustAdded)
          IN /\ HasEntry(e)
             /\ e.version = 1
             /\ ~InStore(remote, e.fileId) /\ InStore(remote', e.fileId)
             /\ remote'[e.fileId] = e.metadata
             /\ e.metadata = enrichMetadata(provider, scannedFile.content,
                                            scannedFile.metadata)
             /\ e.fileId # metadata.files[JustAdded].fileId]_vars

\* the paths of the plan's items in `items` whose operation failed: every
\* item is either reported in `reported` or recorded in result.failed
FailedOf(items, reported) ==
    {p \in Paths : CountPath(items, p) > CountOf(reported, p)}
PathsOf(items) == {items[i].path : i \in 1..Len(items)}

\* the plan of a following run on the same inputs: scan, listFiles and
\* compareFiles applied to the state the returned run leaves behind
RetryPlan ==
    LET local == scan(dir, options)
    IN compareFiles([i \in 1..Len(local) |-> LocalItem(local[i])],
                    listFiles(remote), Load.files)

\* C24: when a run returned with scoped failures, a following run on the
\* same inputs plans exactly the operations that failed: the failed adds
\* are to-add, the failed updates to-update, the failed deletes to-delete,
\* and nothing that succeeded is planned again.
C24_RetryPlansTheFailures ==
    (Returned /\ result.failed # <<>>) =>
        /\ PathsOf(RetryPlan.toAdd) = FailedOf(comparison.toAdd, result.added)
        /\ PathsOf(RetryPlan.toUpdate)
              = FailedOf(comparison.toUpdate, result.updated)
        /\ PathsOf(RetryPlan.toDelete)
              = FailedOf(comparison.toDelete, result.deleted)

\* C25: every sync() that returns a result, a dry run and a run with
\* scoped failures included, has called the provider's cleanup().
C25_CleanupBeforeReturn ==
    pc = "done" => calls.cleanup >= 1

\* the readable files of the directory that match an include pattern and
\* no exclude pattern, default or user-supplied
ExpectedScan ==
    {p \in Paths :
        /\ dir[p] \notin {0, Unreadable}
        /\ \E k \in 1..Len(options.patterns) : p \in GlobMatches(options.patterns[k])
        /\ ~Ignored(p, DefaultExcludes \o options.exclude)}

\* scan() has just returned for a directory that can be listed
JustScanned == pc = "list" /\ options.directory = "root"

\* C26: scan returns exactly one record for every file that matches an
\* include pattern and no exclude pattern, and none for any other file: an
\* excluded path is left out and no path appears twice.
C26_ScanExactlyOnce ==
    JustScanned =>
        \A p \in Paths :
            CountPath(scannedFiles, p) = IF p \in ExpectedScan THEN 1 ELSE 0

\* C27: when the root directory cannot be listed the run fails in the scan:
\* it goes on to no listing, no plan and no call that uploads, updates,
\* deletes or writes the state store.
C27_UnlistableRootIsFatal ==
    options.directory = "unlistable" =>
        /\ pc \in {"scan", "failed"}
        /\ comparison = EmptyPlan
        /\ calls = NoCalls

\* C28: a matching file that cannot be read is left out of the scan result
\* without failing the scan, and every other matching file is returned.
C28_UnreadableSkipped ==
    /\ pc # "failed"
    /\ JustScanned =>
          /\ \A p \in Paths :
                dir[p] = Unreadable => CountPath(scannedFiles, p) = 0
          /\ \A p \in ExpectedScan : CountPath(scannedFiles, p) >= 1

\* a scan has returned one file and left an unreadable matching file out
C28_Witness ==
    /\ JustScanned
    /\ \E p, q \in Paths :
          /\ dir[p] = Unreadable
          /\ \E k \in 1..Len(options.patterns) : p \in GlobMatches(options.patterns[k])
          /\ ~Ignored(p, DefaultExcludes \o options.exclude)
          /\ q \in ExpectedScan
          /\ CountPath(scannedFiles, q) >= 1

\* how often the listing holds the remote id i
ListedCount(i) == Cardinality({k \in 1..Len(remoteFiles) : remoteFiles[k].id = i})

\* C29: the paginated listFiles never lists a remote entry twice, whatever
\* the pages carry, and when it returns the listing is the complete store.
C29_ListingCompleteOnce ==
    /\ \A i \in Ids : ListedCount(i) <= 1
    /\ pc = "done" =>
          \A i \in Ids : ListedCount(i) = IF InStore(remote, i) THEN 1 ELSE 0

\* the paths of the mapping entries that hold the remote id
OwnersOf(id) == {p \in Paths : metadata.files[p].fileId = id}

\* the path in the metadata of the listed remote file with this id
EmbeddedPath(id) ==
    LET hits == SelectSeq(remoteFiles, LAMBDA f : f.id = id)
    IN hits[Len(hits)].metadata.path

\* C30 as stated: a to-delete item reports the path of the mapping entry
\* that holds its remote id when there is one, and otherwise the path
\* embedded in the remote entry's metadata.
C30_DeletePathResolved ==
    JustCompared =>
        \A i \in 1..Len(comparison.toDelete) :
            LET item == comparison.toDelete[i]
            IN IF OwnersOf(item.fileId) # {}
               THEN item.path \in OwnersOf(item.fileId)
               ELSE item.path = EmbeddedPath(item.fileId)

\* C30 amended: as above, and 'unknown' when no mapping entry holds the id
\* and the remote entry's metadata has no path.
C30_DeletePathOrUnknown ==
    JustCompared =>
        \A i \in 1..Len(comparison.toDelete) :
            LET item == comparison.toDelete[i]
            IN IF OwnersOf(item.fileId) # {}
               THEN item.path \in OwnersOf(item.fileId)
               ELSE IF EmbeddedPath(item.fileId) # ""
               THEN item.path = EmbeddedPath(item.fileId)
               ELSE item.path = "unknown"

\* a plan that deletes one remote file under its mapping entry's path, which
\* is not the embedded path, and another under its embedded path
C30_Witness ==
    /\ JustCompared
    /\ \E i, j \in 1..Len(comparison.toDelete) :
          /\ OwnersOf(comparison.toDelete[i].fileId) # {}
          /\ comparison.toDelete[i].path # EmbeddedPath(comparison.toDelete[i].fileId)
          /\ OwnersOf(comparison.toDelete[j].fileId) = {}
          /\ comparison.toDelete[j].path = EmbeddedPath(comparison.toDelete[j].fileId)

\* C31: cleanup(remoteFiles) removes exactly the entries of the mapping in
\* memory whose fileId is not listed and keeps every other entry as it
\* was, a second cleanup with the same listing changes nothing, and
\* nothing persisted changes.
C31_CleanupRemovesStale ==
    [][(last'.op = "cleanup" /\ metadata.loaded) =>
          /\ ~last'.threw
          /\ \A p \in Paths :
                metadata'.files[p] =
                   IF metadata.files[p].fileId \in last'.ret
                   THEN metadata.files[p] ELSE NoEntry
          /\ cleanup(manager', metadata', fileDoc', gitRef', inRepo', worktree',
                     last'.ret) = metadata'
          /\ fileDoc' = fileDoc
          /\ gitRef' = gitRef
          /\ worktree' = worktree]_vars

\* C32: the git-branch state store reads and writes the branch named by the
\* environment variable VECTORNATOR_METADATA_BRANCH when it is set and the
\* branch 'metadata/vectornator' otherwise: a load of a loadable branch
\* yields that branch's document, a save leaves the saved document on that
\* branch, and no other branch of the repository is written.
C32_BranchFromEnvironment ==
    [][LET named == getMetadataBranch(options.env)
       IN /\ (last'.op = "load" /\ Parseable(gitRef[named]))
                 => metadata' = ParseDoc(gitRef[named])
          /\ last'.op = "save" => gitRef'[named] = DocOf(metadata)
          /\ \A b \in BranchNames \ {named} : gitRef'[b] = gitRef[b]]_vars

\* C33: the sync command exits with a non-zero status iff the run raised a
\* fatal error or the returned result has a non-empty failed list, and the
\* step that records a scoped failure does not make sync() raise.
C33_ExitStatus ==
    [][/\ pc' \in {"done", "failed"} =>
             (exitCode(pc', result') # 0
                 <=> (pc' = "failed" \/ result'.failed # <<>>))
       /\ Len(result'.failed) > Len(result.failed) => pc' = pc]_vars

\* a run returned its result with a scoped failure in it
C33_Witness == pc = "done" /\ result.failed # <<>> /\ exitCode(pc, result) = 1

\* C34: an update or a delete that fails leaves the state store as it was
\* (the mapping in memory, the file document and the history), records the
\* item's path once at the end of failed, and the loop goes on with the next
\* item of the plan.
C34_FailedItemKeepsEntry ==
    [][(pc \in {"update", "delete"}
          /\ Len(result'.failed) > Len(result.failed)) =>
          LET items == IF pc = "update" THEN comparison.toUpdate
                       ELSE comparison.toDelete
              path == items[idx].path
          IN /\ metadata' = metadata
             /\ fileDoc' = fileDoc
             /\ gitRef' = gitRef
             /\ Len(result'.failed) = Len(result.failed) + 1
             /\ result'.failed[Len(result'.failed)].path = path
             /\ SubSeq(result'.failed, 1, Len(result.failed)) = result.failed
             /\ pc' = pc /\ idx' = idx + 1 /\ comparison' = comparison]_vars

\* the first of two updates failed, its entry is still there and the second
\* is about to be attempted
C34_Witness ==
    /\ pc = "update" /\ idx = 2 /\ Len(comparison.toUpdate) = 2
    /\ result.failed # <<>>
    /\ result.failed[Len(result.failed)].path = comparison.toUpdate[1].path
    /\ HasEntry(metadata.files[comparison.toUpdate[1].path])

\* C35: after a non-dry run without failures, every path the plan classified
\* to-add, to-update or unchanged has a SyncEntry: the delete phase removed
\* no entry of a path of the local file set.
C35_DeleteKeepsLocalEntries ==
    RunSucceeded =>
        \A p \in PathsOf(comparison.toAdd) \cup PathsOf(comparison.toUpdate)
                    \cup PathsOf(comparison.unchanged) :
            HasEntry(metadata.files[p])

FailedPaths == {result.failed[i].path : i \in 1..Len(result.failed)}
ListedIn(seq) == {seq[i] : i \in 1..Len(seq)}

\* C36: in a non-dry run that returned, every to-add path is in
\* exactly one of result.added and result.failed, every to-update path in
\* exactly one of result.updated and result.failed, every to-delete path in
\* exactly one of result.deleted and result.failed, and result.unchanged is
\* the plan's unchanged paths.
C36_AccountingByPath ==
    Returned =>
        /\ \A p \in PathsOf(comparison.toAdd) :
              (p \in ListedIn(result.added)) # (p \in FailedPaths)
        /\ \A p \in PathsOf(comparison.toUpdate) :
              (p \in ListedIn(result.updated)) # (p \in FailedPaths)
        /\ \A p \in PathsOf(comparison.toDelete) :
              (p \in ListedIn(result.deleted)) # (p \in FailedPaths)
        /\ result.unchanged =
              [i \in 1..Len(comparison.unchanged) |-> comparison.unchanged[i].path]

\* C37: in every run verifyStore completes before the scan, the scan before
\* listFiles and listFiles before compareFiles; the engine makes no upload,
\* update or delete call before compareFiles has returned; every to-add item
\* has been attempted before the first update and every to-update item
\* before the first delete.
C37_StepOrder ==
    [][/\ scannedFiles' # scannedFiles /\ pc' # "idle" =>
             pc = "scan" /\ last.op = "verifyStore" /\ ~last.threw
       /\ remoteFiles' # remoteFiles /\ pc' # "idle" =>
             pc = "list" /\ comparison = EmptyPlan
       /\ pc' = "list" /\ pc # "list" => pc = "scan"
       /\ pc' = "compare" /\ pc # "compare" => pc = "list"
       /\ comparison' # comparison /\ pc' # "idle" => pc = "compare"
       /\ pc \in {"verify", "scan", "list", "compare"} =>
             /\ calls'.uploadFile = 0 /\ calls'.updateFile = 0
             /\ calls'.deleteFile = 0
       /\ calls'.uploadFile > calls.uploadFile =>
             calls.updateFile = 0 /\ calls.deleteFile = 0
       /\ calls'.updateFile > calls.updateFile =>
             /\ calls.uploadFile = Len(comparison.toAdd)
             /\ calls.deleteFile = 0
       /\ calls'.deleteFile > calls.deleteFile =>
             /\ calls.uploadFile = Len(comparison.toAdd)
             /\ calls.updateFile = Len(comparison.toUpdate)]_vars

\* a run that attempted an add, then an update, and is deleting
C37_Witness ==
    /\ pc = "delete" /\ idx > 1
    /\ calls.uploadFile > 0 /\ calls.updateFile > 0 /\ calls.deleteFile > 0

\* C38: the result a dry run returns has empty added, updated, deleted,
\* unchanged and failed lists, whatever the plan holds.
C38_DryRunResultEmpty ==
    (pc = "done" /\ options.dryRun) =>
        /\ result.added = <<>> /\ result.updated = <<>>
        /\ result.deleted = <<>> /\ result.unchanged = <<>>
        /\ result.failed = <<>>

\* a dry run returned with a plan that holds an update and an unchanged path
C38_Witness ==
    /\ pc = "done" /\ options.dryRun
    /\ comparison.toUpdate # <<>> /\ comparison.unchanged # <<>>
    /\ result.unchanged = <<>>

\* C39: a guarded method of a provider derived from the base class raises
\* 'not initialized' exactly when no initialize() completed since the
\* construction or the last cleanup(); an initialize() that fails leaves the
\* flag as it was, so a provider that was not initialized stays so; a second
\* cleanup() changes nothing.
C39_ProviderLifecycle ==
    [][/\ last'.op \in GuardedOps =>
             (last'.ret = "not initialized" <=> ~prev.ready)
       /\ (last'.op = "initialize" /\ last'.threw) =>
             /\ initialized' = initialized
             /\ ~prev.ready => ~initialized'
       /\ last'.op = "cleanup" =>
             /\ ~initialized'
             /\ cleanupStore(provider', remote') = remote'
             /\ cleanupInitialized(provider', initialized') = initialized']_vars

\* an upload was refused after a cleanup that followed a successful upload
C39_Witness ==
    /\ last.op = "uploadFile" /\ last.ret = "not initialized"
    /\ \E i \in Ids : InStore(remote, i)

\* the parts accepted and the reports made for one file
PartsOf(parts, p) == SelectSeq(parts, LAMBDA x : x.file = p)
BytesOf(part) == {b \in 0..(MaxBytes + MaxChunkSize) :
                     part.startByte <= b /\ b < part.endByte}

\* C40: for content of n bytes and chunk size c the parts uploaded for a file
\* are, in order, the ranges [i*c, min((i+1)*c, n)) with part numbers i+1 and
\* one progress report per chunk attempted; the ranges are non-empty and
\* disjoint, and for a file that was added they are ceil(n/c) in number and
\* cover [0, n) exactly. A chunk that fails ends the upload of its file: no
\* later part of that file is sent, the file's path is appended to failed
\* and nothing else about the result changes, and the loop goes on.
C40_ChunkedUpload ==
    [][/\ \A p \in Paths :
             LET n == prev.fileSize[p]
                 c == prev.chunkSize
                 P == PartsOf(remoteFiles', p)
                 R == PartsOf(scannedFiles', p)
                 count == (n + c - 1) \div c
             IN /\ \A k \in 1..Len(P) :
                      /\ P[k].partNumber = k
                      /\ P[k].startByte = (k - 1) * c
                      /\ P[k].endByte = IF k * c < n THEN k * c ELSE n
                      /\ P[k].startByte < P[k].endByte
                      /\ \A j \in 1..(k - 1) : BytesOf(P[j]) \cap BytesOf(P[k]) = {}
                /\ \A k \in 1..Len(R) : R[k].current = k /\ R[k].total = count
                /\ Len(P) <= Len(R) /\ Len(R) <= Len(P) + 1
                /\ Len(R) <= count
                /\ (\E k \in 1..Len(result'.added) : result'.added[k] = p) =>
                      /\ Len(P) = count /\ Len(R) = count
                      /\ UNION {BytesOf(P[k]) : k \in 1..Len(P)} = 0..(n - 1)
                /\ (\E k \in 1..Len(result.failed) : result.failed[k].path = p) =>
                      PartsOf(remoteFiles', p) = PartsOf(remoteFiles, p)
       /\ (last'.op = "uploadFilePart" /\ last'.threw) =>
             /\ result'.failed = Append(result.failed, [path |-> last'.path,
                                                        error |-> "Upload failed"])
             /\ result'.added = result.added
             /\ remoteFiles' = remoteFiles
             /\ pc' = "add"]_vars

\* the first file's upload stopped at its second chunk of three, and the
\* second file was then uploaded in two chunks and added
C40_Witness ==
    /\ Len(result.failed) = 1 /\ result.failed[1].path = PathSeq[1]
    /\ Len(PartsOf(remoteFiles, PathSeq[1])) = 1
    /\ Len(PartsOf(scannedFiles, PathSeq[1])) = 2
    /\ result.added = <<PathSeq[2]>>
    /\ Len(PartsOf(remoteFiles, PathSeq[2])) = 2
    /\ prev.fileSize[PathSeq[2]] % prev.chunkSize # 0

====
